---- MODULE Spec2Model ----
(***************************************************************************)
(* faster-express: configuration resolution (utils/prompts), the           *)
(* dependency matrix (generators/project, generators/packageJson) and the  *)
(* resource generator (generators/resourceFiles).                          *)
(*                                                                         *)
(* JavaScript values are modelled as strings: "undefined" is an absent     *)
(* field, "true" / "false" are the booleans, every other string is itself. *)
(***************************************************************************)
EXTENDS Integers, Sequences, FiniteSets, TLC

VARIABLES
    pc,            \* position of the running command
    options,       \* CreateOptions record handed to promptProjectConfig
    lightMode,     \* value returned by promptLightMode
    configureMore, \* value returned by promptConfigureMore
    answers,       \* answers object returned by inquirer.prompt(questions)
    asked,         \* questions put to the user, in order
    ormChoices,    \* choice list offered by the orm question
    config,        \* ProjectConfig returned by promptProjectConfig
    resourceOptions, \* options record handed to promptResourceConfig
    resourceAnswers, \* answers object of promptResourceConfig
    resourceConfig,  \* ResourceConfig returned / handed to generateResource
    projectConfig,   \* ProjectConfig handed to the generators
    written,         \* files written by generateResource
    routes,          \* route table emitted by generateRoutesContent
    manifest,        \* outcome of generatePackageJson
    artifacts,       \* content of the files written, by file name
    items,           \* record list of the generated in-memory service
    nextId,          \* identifier counter of the generated in-memory service
    result,          \* value returned by the last service call
    status,          \* HTTP status the generated controller answered with
    packageJson,     \* package.json read by the add command
    cwd,             \* the directory the add command runs in
    disk,            \* paths that exist, relative to the project directory
    command,         \* the command that ran last and its exit status
    trace,           \* steps createProject has taken, in order
    pending,         \* file-system operations started and not yet carried out
    resourceKinds,   \* what the index of each resource directory does when loaded
    invoked,         \* how often registerResources called each resource's function
    reports          \* console reports of registerResources, in order

resolverVars == <<options, lightMode, configureMore, answers, ormChoices, config>>
resourceVars == <<resourceOptions, resourceAnswers, resourceConfig>>
genVars == <<projectConfig, written, routes, manifest, artifacts>>
storeVars == <<items, nextId, result, status>>
addVars == <<packageJson, cwd>>
runVars == <<disk, command, trace, pending>>
registrarVars == <<resourceKinds, invoked, reports>>

vars == <<pc, asked, resolverVars, resourceVars, genVars, storeVars, addVars, runVars,
          registrarVars>>

----------------------------------------------------------------------------
(* Bounds *)

\* at most this many fields of the options record are explicit
MaxExplicit == 2
\* at most this many answers of the full flow differ from the question default
MaxDeviations == 1

----------------------------------------------------------------------------
(* JavaScript value helpers *)

U == "undefined"
T == "true"
F == "false"
BOOL == {T, F}

Truthy(v) == v \notin {U, F}
Or(a, b) == IF Truthy(a) THEN a ELSE b
Bool(b) == IF b THEN T ELSE F

----------------------------------------------------------------------------
(* CreateOptions *)

OptDom ==
    [ lang         |-> {"ts", "js"},
      pkgManager   |-> {"npm", "yarn", "pnpm"},
      style        |-> {"resource", "layered"},
      withDb       |-> BOOL,
      db           |-> {"mongodb", "postgres"},
      orm          |-> {"mongoose", "prisma", "sequelize", "typeorm"},
      withAuth     |-> BOOL,
      auth         |-> {"jwt", "passport"},
      withJest     |-> BOOL,
      tests        |-> BOOL,
      withEslint   |-> BOOL,
      withPrettier |-> BOOL,
      withDocker   |-> BOOL,
      git          |-> BOOL,
      light        |-> BOOL,
      boilerplate  |-> {"minimal", "full", "signatures"},
      validation   |-> BOOL ]

OptFields == DOMAIN OptDom

NoOptions == [f \in OptFields |-> U]

RECURSIVE OptionsUpTo(_)
OptionsUpTo(k) ==
    IF k = 0 THEN {NoOptions}
    ELSE LET prev == OptionsUpTo(k - 1) IN
         prev \cup UNION { UNION { {[g EXCEPT ![f] = v] : v \in OptDom[f]}
                                   : f \in {h \in OptFields : g[h] = U} }
                           : g \in prev }

----------------------------------------------------------------------------
(* The compatibility table offered by the orm question *)

OrmChoicesFor(db) ==
    IF db = "mongodb" THEN {"mongoose", "prisma"}
    ELSE IF db = "postgres" THEN {"prisma", "sequelize", "typeorm"}
    ELSE {}

----------------------------------------------------------------------------
(* promptProjectConfig *)

NoConfig == [name |-> U]

NoAnswers ==
    [ language |-> U, packageManager |-> U, style |-> U, boilerplateLevel |-> U,
      includeValidation |-> U, database |-> U, orm |-> U, auth |-> U,
      testing |-> U, eslint |-> U, prettier |-> U, docker |-> U, git |-> U ]

ProjectName == "shop"

\* createLightConfig letting an explicit database request through
createLightConfigKeepingDb(o) ==
    [ name              |-> ProjectName,
      language          |-> Or(o.lang, "ts"),
      packageManager    |-> Or(o.pkgManager, "npm"),
      style             |-> "resource",
      database          |-> IF Truthy(o.withDb) THEN Or(o.db, "mongodb") ELSE U,
      orm               |-> U,
      auth              |-> U,
      testing           |-> F,
      eslint            |-> F,
      prettier          |-> F,
      docker            |-> F,
      git               |-> Bool(o.git # F),
      light             |-> T,
      boilerplateLevel  |-> "minimal",
      includeValidation |-> F ]

createLightConfig(o) ==
    [ name              |-> ProjectName,
      language          |-> Or(o.lang, "ts"),
      packageManager    |-> Or(o.pkgManager, "npm"),
      style             |-> "resource",
      database          |-> U,
      orm               |-> U,
      auth              |-> U,
      testing           |-> F,
      eslint            |-> F,
      prettier          |-> F,
      docker            |-> F,
      git               |-> Bool(o.git # F),
      light             |-> T,
      boilerplateLevel  |-> "minimal",
      includeValidation |-> F ]

createDefaultConfig(o) ==
    [ name              |-> ProjectName,
      language          |-> Or(o.lang, "ts"),
      packageManager    |-> Or(o.pkgManager, "npm"),
      style             |-> Or(o.style, "resource"),
      database          |-> U,
      orm               |-> U,
      auth              |-> U,
      testing           |-> F,
      eslint            |-> F,
      prettier          |-> F,
      docker            |-> F,
      git               |-> Bool(o.git # F),
      light             |-> F,
      boilerplateLevel  |-> Or(o.boilerplate, "full"),
      includeValidation |-> Bool(o.validation # F) ]

\* the questions of promptFullConfiguration, in the order they are pushed
QOrder == << "language", "packageManager", "style", "boilerplateLevel",
             "includeValidation", "database", "orm", "auth", "testing",
             "eslint", "prettier", "docker", "git" >>

QChoices ==
    [ language          |-> {"ts", "js"},
      packageManager    |-> {"npm", "yarn", "pnpm"},
      style             |-> {"resource", "layered"},
      boilerplateLevel  |-> {"full", "signatures", "minimal"},
      includeValidation |-> BOOL,
      database          |-> {"none", "mongodb", "postgres"},
      auth              |-> {"none", "jwt", "passport"},
      testing           |-> BOOL,
      eslint            |-> BOOL,
      prettier          |-> BOOL,
      docker            |-> BOOL,
      git               |-> BOOL ]

QDefault ==
    [ language          |-> "ts",
      packageManager    |-> "npm",
      style             |-> "resource",
      boilerplateLevel  |-> "full",
      includeValidation |-> T,
      database          |-> "none",
      auth              |-> "none",
      testing           |-> T,
      eslint            |-> T,
      prettier          |-> T,
      docker            |-> F,
      git               |-> T ]

\* the condition under which each question is pushed onto the list
Pushed(o, q) ==
    CASE q = "language"          -> ~Truthy(o.lang)
      [] q = "packageManager"    -> ~Truthy(o.pkgManager)
      [] q = "style"             -> ~Truthy(o.style)
      [] q = "boilerplateLevel"  -> ~Truthy(o.boilerplate)
      [] q = "includeValidation" -> o.validation = U
      [] q = "database"          -> o.withDb = U
      [] q = "orm"               -> TRUE
      [] q = "auth"              -> o.withAuth = U
      [] q = "testing"           -> o.withJest = U /\ o.tests # F
      [] q = "eslint"            -> o.withEslint = U
      [] q = "prettier"          -> o.withPrettier = U
      [] q = "docker"            -> o.withDocker = U
      [] q = "git"               -> o.git # F

\* the `when` and `choices` callbacks of the orm question
OrmWhen(o, a) == Or(o.db, a.database) # "none" /\ ~Truthy(o.orm)
OrmQuestionChoices(o, a) == OrmChoicesFor(Or(o.db, a.database))

\* answers to the unconditional questions: every pushed one is answered
DefaultAnswers(o) ==
    [q \in DOMAIN NoAnswers |->
        IF q # "orm" /\ Pushed(o, q) THEN QDefault[q] ELSE U]

RECURSIVE PlainAnswersUpTo(_, _)
PlainAnswersUpTo(o, k) ==
    IF k = 0 THEN {DefaultAnswers(o)}
    ELSE LET prev == PlainAnswersUpTo(o, k - 1) IN
         prev \cup UNION { UNION { {[a EXCEPT ![q] = v] : v \in QChoices[q] \ {QDefault[q]}}
                                   : q \in {h \in DOMAIN QChoices : a[h] # U /\ a[h] = QDefault[h]} }
                           : a \in prev }

\* the answers inquirer.prompt can return for the question list
AnswerSets(o) ==
    UNION { IF OrmWhen(o, a) /\ OrmQuestionChoices(o, a) # {}
            THEN {[a EXCEPT !.orm = v] : v \in OrmQuestionChoices(o, a)}
            ELSE {a}
            : a \in PlainAnswersUpTo(o, MaxDeviations) }

AskedIn(o, a) ==
    SelectSeq(QOrder, LAMBDA q : IF q = "orm" THEN OrmWhen(o, a) ELSE Pushed(o, q))

OrmPosition(qs) == CHOOSE i \in 1..Len(qs) : qs[i] = "orm"

FullConfig(o, a) ==
    LET database == IF Truthy(o.withDb) THEN Or(o.db, "mongodb")
                    ELSE IF a.database = "none" THEN U ELSE a.database
        auth     == IF Truthy(o.withAuth) THEN Or(o.auth, "jwt")
                    ELSE IF a.auth = "none" THEN U ELSE a.auth
    IN
    [ name              |-> ProjectName,
      language          |-> Or(Or(o.lang, a.language), "ts"),
      packageManager    |-> Or(Or(o.pkgManager, a.packageManager), "npm"),
      style             |-> Or(Or(o.style, a.style), "resource"),
      database          |-> database,
      orm               |-> Or(o.orm, a.orm),
      auth              |-> auth,
      testing           |-> IF o.tests = F THEN F ELSE Or(Or(o.withJest, a.testing), F),
      eslint            |-> Or(Or(o.withEslint, a.eslint), F),
      prettier          |-> Or(Or(o.withPrettier, a.prettier), F),
      docker            |-> Or(Or(o.withDocker, a.docker), F),
      git               |-> IF o.git # F THEN Bool(a.git # F) ELSE F,
      light             |-> F,
      boilerplateLevel  |-> Or(Or(o.boilerplate, a.boilerplateLevel), "full"),
      includeValidation |-> IF o.validation # F THEN Bool(a.includeValidation # F) ELSE F ]

----------------------------------------------------------------------------
(* promptResourceConfig *)

\* at most this many comma-separated segments in the custom-endpoints input
MaxSegments == 2

\* an optional list: options.endpoints, answers.customEndpoints
NoList == [defined |-> F, items |-> << >>]
List(s) == [defined |-> T, items |-> s]

ResourceName == "order"

ResourceOptDom ==
    [ tests       |-> BOOL \cup {U},
      withAuth    |-> BOOL \cup {U},
      boilerplate |-> {"minimal", "full", "signatures", U},
      validation  |-> BOOL \cup {U},
      endpoints   |-> {NoList, List(<< >>), List(<<"archive">>)} ]

ResourceOptionSets ==
    [ tests : ResourceOptDom.tests, withAuth : ResourceOptDom.withAuth,
      boilerplate : ResourceOptDom.boilerplate, validation : ResourceOptDom.validation,
      endpoints : ResourceOptDom.endpoints ]

NoResourceOptions ==
    [tests |-> U, withAuth |-> U, boilerplate |-> U, validation |-> U, endpoints |-> NoList]

NoResourceAnswers ==
    [ configureOptions |-> U, boilerplateLevel |-> U, includeValidation |-> U,
      customEndpoints |-> NoList, generateTests |-> U, withAuth |-> U ]

NoResourceConfig == [name |-> U]

\* the text typed at the custom-endpoints question, already cut at the commas
Segments == {"", " ", "activate", " bulk-update"}

RECURSIVE SegmentsUpTo(_)
SegmentsUpTo(n) ==
    IF n = 1 THEN {<<x>> : x \in Segments}
    ELSE SegmentsUpTo(n - 1) \cup
         {Append(s, x) : s \in {t \in SegmentsUpTo(n - 1) : Len(t) = n - 1}, x \in Segments}

\* String.prototype.trim on the segments above
Trim(x) ==
    CASE x = " "            -> ""
      [] x = " bulk-update" -> "bulk-update"
      [] OTHER              -> x

\* a JavaScript string is truthy unless it is empty; "" splits into <<"">>
TruthyText(l) == l.defined = T /\ l.items # <<"">>

\* answers.customEndpoints.split(',').map(trim).filter(s => s)
ProcessEndpoints(l) ==
    SelectSeq([i \in 1..Len(l.items) |-> Trim(l.items[i])], LAMBDA x : x # "")

\* the `when` callbacks of the conditional questions
ResourceWhen(o, a, q) ==
    /\ a.configureOptions = T
    /\ CASE q = "boilerplateLevel"  -> ~Truthy(o.boilerplate)
         [] q = "includeValidation" -> o.validation = U
         [] q = "customEndpoints"   -> o.endpoints.defined # T
         [] q = "generateTests"     -> o.tests = U
         [] q = "withAuth"          -> o.withAuth = U

ResourceQOrder ==
    <<"boilerplateLevel", "includeValidation", "customEndpoints", "generateTests", "withAuth">>

ResourceAnswerSets(o) ==
    LET gate(c) == [NoResourceAnswers EXCEPT !.configureOptions = c]
        pick(c, q, S, none) == IF ResourceWhen(o, gate(c), q) THEN S ELSE {none}
    IN UNION { { [ configureOptions  |-> c,
                   boilerplateLevel  |-> b,
                   includeValidation |-> v,
                   customEndpoints   |-> e,
                   generateTests     |-> t,
                   withAuth          |-> w ]
                 : b \in pick(c, "boilerplateLevel", {"full", "signatures", "minimal"}, U),
                   v \in pick(c, "includeValidation", BOOL, U),
                   e \in pick(c, "customEndpoints", {List(s) : s \in SegmentsUpTo(MaxSegments)}, NoList),
                   t \in pick(c, "generateTests", BOOL, U),
                   w \in pick(c, "withAuth", BOOL, U) }
               : c \in BOOL }

ResourceAskedIn(o, a) ==
    <<"configureOptions">> \o SelectSeq(ResourceQOrder, LAMBDA q : ResourceWhen(o, a, q))

ResourceConfigOf(o, a) ==
    [ name              |-> ResourceName,
      generateTests     |-> IF o.tests # F THEN Bool(a.generateTests # F) ELSE F,
      withAuth          |-> Or(Or(o.withAuth, a.withAuth), F),
      boilerplateLevel  |-> Or(Or(o.boilerplate, a.boilerplateLevel), "full"),
      includeValidation |-> IF o.validation # F THEN Bool(a.includeValidation # F) ELSE T,
      customEndpoints   |-> IF TruthyText(a.customEndpoints)
                            THEN ProcessEndpoints(a.customEndpoints)
                            ELSE IF o.endpoints.defined = T THEN o.endpoints.items ELSE << >> ]

----------------------------------------------------------------------------
(* generateResource, generateRoutesContent, generateConfigFiles *)

Ext(p) == IF p.language = "ts" THEN ".ts" ELSE ".js"

DatabaseEnabled(p) == Truthy(p.database) /\ p.database # "none"

\* generateResource writing the test file without looking at the parent project
ResourceFilesIgnoringParent(p, r) ==
    { "controller" \o Ext(p), "service" \o Ext(p), "routes" \o Ext(p),
      "validation" \o Ext(p), "index" \o Ext(p) }
    \cup (IF DatabaseEnabled(p) THEN {"model" \o Ext(p)} ELSE {})
    \cup (IF Truthy(r.generateTests) THEN {r.name \o ".test" \o Ext(p)} ELSE {})

\* the files generateResource writes into resources/<name>/
ResourceFiles(p, r) ==
    { "controller" \o Ext(p), "service" \o Ext(p), "routes" \o Ext(p),
      "validation" \o Ext(p), "index" \o Ext(p) }
    \cup (IF DatabaseEnabled(p) THEN {"model" \o Ext(p)} ELSE {})
    \cup (IF Truthy(r.generateTests) /\ Truthy(p.testing)
          THEN {r.name \o ".test" \o Ext(p)} ELSE {})

AuthWired(p, r) == Truthy(r.withAuth) /\ Truthy(p.auth) /\ p.auth # "none"

\* generateRoutesContent putting the auth middleware in front of validation
generateRoutesContentAuthFirst(p, r) ==
    LET authMiddleware == IF AuthWired(p, r) THEN <<"authenticateToken">> ELSE << >> IN
    [ syntax  |-> IF p.language = "ts" THEN "esm" ELSE "commonjs",
      imports |-> {"./controller", "./validation"}
                  \cup (IF AuthWired(p, r) THEN {"../../middleware/auth"} ELSE {}),
      table   |-> << [method |-> "get",    path |-> "/",    chain |-> <<"getAll">>],
                     [method |-> "get",    path |-> "/:id", chain |-> <<"getById">>],
                     [method |-> "post",   path |-> "/",
                      chain |-> authMiddleware \o <<"validate", "create">>],
                     [method |-> "put",    path |-> "/:id",
                      chain |-> authMiddleware \o <<"validate", "update">>],
                     [method |-> "delete", path |-> "/:id",
                      chain |-> authMiddleware \o <<"delete">>] >> ]

\* the route table of the routes artifact: method, path, and the handler chain
generateRoutesContent(p, r) ==
    LET authMiddleware == IF AuthWired(p, r) THEN <<"authenticateToken">> ELSE << >> IN
    [ syntax  |-> IF p.language = "ts" THEN "esm" ELSE "commonjs",
      imports |-> {"./controller", "./validation"}
                  \cup (IF AuthWired(p, r) THEN {"../../middleware/auth"} ELSE {}),
      table   |-> << [method |-> "get",    path |-> "/",    chain |-> <<"getAll">>],
                     [method |-> "get",    path |-> "/:id", chain |-> <<"getById">>],
                     [method |-> "post",   path |-> "/",
                      chain |-> <<"validate">> \o authMiddleware \o <<"create">>],
                     [method |-> "put",    path |-> "/:id",
                      chain |-> <<"validate">> \o authMiddleware \o <<"update">>],
                     [method |-> "delete", path |-> "/:id",
                      chain |-> authMiddleware \o <<"delete">>] >> ]

NoRoutes == [syntax |-> U, imports |-> {}, table |-> << >>]

\* the files generateConfigFiles writes below the project directory
generateConfigFiles(p) ==
    (IF p.language = "ts" THEN {"tsconfig.json"} ELSE {})
    \cup (IF Truthy(p.testing) THEN {"jest.config.json"} ELSE {})
    \cup (IF Truthy(p.eslint) THEN {".eslintrc.json"} ELSE {})
    \cup (IF Truthy(p.prettier) THEN {".prettierrc", ".prettierignore"} ELSE {})
    \cup (IF Truthy(p.docker) THEN {"Dockerfile", "docker-compose.yml", ".dockerignore"} ELSE {})
    \cup (IF p.orm = "prisma" THEN {"prisma/schema.prisma"} ELSE {})
    \cup {".gitignore"}

\* the example resource generateResourceFiles hands to generateResource
userResourceConfig(p) ==
    [ name              |-> "user",
      generateTests     |-> p.testing,
      withAuth          |-> F,
      boilerplateLevel  |-> p.boilerplateLevel,
      includeValidation |-> p.includeValidation ]

----------------------------------------------------------------------------
(* Content of the resource artifacts: generateControllerContent,           *)
(* generateServiceContent, generateValidationContent, generateIndexContent,*)
(* generateModelContent, generateTestContent                               *)

\* resourceName.charAt(0).toUpperCase() + resourceName.slice(1)
Capitalize(name) ==
    CASE name = "order" -> "Order"
      [] name = "post"  -> "Post"
      [] name = "user"  -> "User"
      [] OTHER          -> name

\* what the text of an artifact holds:
\*   forms      syntax forms that occur in it
\*   exports    names it exports; nullExports, those among them bound to null
\*   imports    names it takes from sibling modules
\*   operations methods of the class it defines; bodies, what they contain
\*   storage    where the service keeps its records; calls, model methods used
\*   mount      path under which index registers the router
EmptyArtifact ==
    [ forms |-> {}, exports |-> {}, nullExports |-> {}, imports |-> {},
      operations |-> {}, bodies |-> "none", storage |-> "none", calls |-> {},
      mount |-> U ]

Esm(typed) == {"import", "export"} \cup (IF typed THEN {"types"} ELSE {})
CommonJs == {"require", "module.exports"}

From(module, name) == [from |-> module, name |-> name]

generateControllerContent(p, r) ==
    [ EmptyArtifact EXCEPT
        !.forms      = IF p.language = "ts" THEN Esm(TRUE) ELSE CommonJs,
        !.imports    = {From("./service", Capitalize(r.name) \o "Service")},
        !.exports    = {Capitalize(r.name) \o "Controller"},
        !.operations = {"getAll", "getById", "create", "update", "delete"},
        !.bodies     = "working" ]

ServiceOperations == {"findAll", "findById", "create", "update", "delete"}

generateServiceContent(p, r) ==
    IF DatabaseEnabled(p)
    THEN [ EmptyArtifact EXCEPT
             !.forms      = IF p.language = "ts" THEN Esm(TRUE) ELSE CommonJs,
             !.imports    = {From("./model", Capitalize(r.name) \o "Model")},
             !.exports    = {Capitalize(r.name) \o "Service"},
             !.operations = ServiceOperations,
             !.bodies     = "working",
             !.storage    = "model",
             !.calls      = {"find", "findById", "create", "findByIdAndUpdate",
                             "findByIdAndDelete"} ]
    ELSE [ EmptyArtifact EXCEPT
             !.forms      = IF p.language = "ts" THEN {"export", "types"}
                            ELSE {"module.exports"},
             !.exports    = {Capitalize(r.name) \o "Service"},
             !.operations = ServiceOperations,
             !.bodies     = "working",
             !.storage    = "array" ]

generateValidationContent(p, r) ==
    [ EmptyArtifact EXCEPT
        !.forms   = IF p.language = "ts" THEN Esm(TRUE) ELSE CommonJs,
        !.exports = {"validate" \o Capitalize(r.name)} ]

generateIndexContent(p, r) ==
    [ EmptyArtifact EXCEPT
        !.forms   = IF p.language = "ts" THEN Esm(TRUE) ELSE CommonJs,
        !.imports = {From("./routes", r.name \o "Routes")},
        !.exports = {"register" \o Capitalize(r.name) \o "Routes"},
        !.mount   = "/api/" \o r.name \o "s" ]

generateModelContent(p, r) ==
    CASE p.orm = "mongoose" ->
           [ EmptyArtifact EXCEPT
               !.forms   = IF p.language = "ts" THEN Esm(TRUE) ELSE CommonJs,
               !.exports = {Capitalize(r.name) \o "Model"} ]
      [] p.orm = "prisma" ->
           [ EmptyArtifact EXCEPT
               !.forms       = {"export"},
               !.exports     = {Capitalize(r.name) \o "Model"},
               !.nullExports = {Capitalize(r.name) \o "Model"} ]
      [] OTHER -> EmptyArtifact

generateTestContent(p, r) ==
    [ EmptyArtifact EXCEPT
        !.forms   = IF p.language = "ts" THEN {"import", "types"} ELSE {"require"},
        !.imports = {From("../../app", "app")} ]

\* the routes artifact in the same shape
RoutesArtifact(p, r) ==
    [ EmptyArtifact EXCEPT
        !.forms   = IF p.language = "ts" THEN Esm(FALSE) ELSE CommonJs,
        !.imports = {From("./controller", Capitalize(r.name) \o "Controller"),
                     From("./validation", "validate" \o Capitalize(r.name))}
                    \cup (IF AuthWired(p, r)
                          THEN {From("../../middleware/auth", "authenticateToken")}
                          ELSE {}),
        !.exports = {"router"} ]

\* the text generateResource writes to each file of resources/<name>/
ResourceArtifacts(p, r) ==
    [ f \in ResourceFiles(p, r) |->
        CASE f = "controller" \o Ext(p) -> generateControllerContent(p, r)
          [] f = "service" \o Ext(p)    -> generateServiceContent(p, r)
          [] f = "routes" \o Ext(p)     -> RoutesArtifact(p, r)
          [] f = "validation" \o Ext(p) -> generateValidationContent(p, r)
          [] f = "index" \o Ext(p)      -> generateIndexContent(p, r)
          [] f = "model" \o Ext(p)      -> generateModelContent(p, r)
          [] OTHER                      -> generateTestContent(p, r) ]

----------------------------------------------------------------------------
(* The dependency matrix: getDatabaseDependencies, getAuthDependencies,    *)
(* generateDependencies, generateDevDependencies, generateScripts          *)

Range(s) == {s[i] : i \in DOMAIN s}

\* getDatabaseDependencies pushing the postgres driver for every database kind
getDatabaseDependenciesAlwaysPg(database, orm) ==
    IF ~Truthy(database) \/ database = "none"
    THEN [dependencies |-> << >>, devDependencies |-> << >>]
    ELSE CASE orm = "mongoose" ->
                [dependencies |-> <<"mongoose">>, devDependencies |-> <<"@types/mongoose">>]
           [] orm = "prisma" ->
                [dependencies |-> <<"@prisma/client">>, devDependencies |-> <<"prisma">>]
           [] orm = "sequelize" ->
                [dependencies    |-> <<"sequelize", "pg">>,
                 devDependencies |-> <<"@types/sequelize", "@types/pg">>]
           [] orm = "typeorm" ->
                [dependencies    |-> <<"typeorm", "reflect-metadata", "pg">>,
                 devDependencies |-> <<"@types/pg">>]
           [] OTHER -> [dependencies |-> << >>, devDependencies |-> << >>]

getDatabaseDependencies(database, orm) ==
    IF ~Truthy(database) \/ database = "none"
    THEN [dependencies |-> << >>, devDependencies |-> << >>]
    ELSE CASE orm = "mongoose" ->
                [dependencies |-> <<"mongoose">>, devDependencies |-> <<"@types/mongoose">>]
           [] orm = "prisma" ->
                [dependencies |-> <<"@prisma/client">>, devDependencies |-> <<"prisma">>]
           [] orm = "sequelize" ->
                [dependencies    |-> <<"sequelize">> \o
                                     (IF database = "postgres" THEN <<"pg">> ELSE << >>),
                 devDependencies |-> <<"@types/sequelize">> \o
                                     (IF database = "postgres" THEN <<"@types/pg">> ELSE << >>)]
           [] orm = "typeorm" ->
                [dependencies    |-> <<"typeorm", "reflect-metadata">> \o
                                     (IF database = "postgres" THEN <<"pg">>
                                      ELSE IF database = "mongodb" THEN <<"mongodb">>
                                      ELSE << >>),
                 devDependencies |-> IF database = "postgres" THEN <<"@types/pg">> ELSE << >>]
           [] OTHER -> [dependencies |-> << >>, devDependencies |-> << >>]

getAuthDependencies(auth) ==
    IF ~Truthy(auth) \/ auth = "none"
    THEN [dependencies |-> << >>, devDependencies |-> << >>]
    ELSE CASE auth = "jwt" ->
                [dependencies    |-> <<"jsonwebtoken", "bcryptjs">>,
                 devDependencies |-> <<"@types/jsonwebtoken", "@types/bcryptjs">>]
           [] auth = "passport" ->
                [dependencies    |-> <<"passport", "passport-local", "express-session">>,
                 devDependencies |-> <<"@types/passport", "@types/passport-local",
                                       "@types/express-session">>]
           [] OTHER -> [dependencies |-> << >>, devDependencies |-> << >>]

\* reading config.swagger.enabled throws a TypeError when config.swagger is absent
SwaggerReadThrows(p) == "swagger" \notin DOMAIN p
SwaggerEnabled(p) == Truthy(p.swagger.enabled)

Threw == [threw |-> TRUE, names |-> {}]
Returned(S) == [threw |-> FALSE, names |-> S]

generateDependencies(p) ==
    LET deps == {"express", "cors", "helmet", "express-rate-limit", "express-validator"}
                \cup Range(getDatabaseDependencies(p.database, p.orm).dependencies)
                \cup Range(getAuthDependencies(p.auth).dependencies)
    IN IF SwaggerReadThrows(p) THEN Threw
       ELSE Returned(deps
                     \cup (IF SwaggerEnabled(p)
                           THEN {"swagger-ui-express", "swagger-jsdoc", "yamljs"} ELSE {})
                     \cup {"dotenv"})

generateDevDependencies(p) ==
    IF p.language = "ts" /\ SwaggerReadThrows(p) THEN Threw
    ELSE Returned(
      (IF p.language = "ts"
       THEN {"typescript", "ts-node", "@types/node", "@types/express", "@types/cors"}
            \cup (IF SwaggerEnabled(p)
                  THEN {"@types/swagger-ui-express", "@types/swagger-jsdoc", "@types/yamljs"}
                  ELSE {})
       ELSE {"nodemon"})
      \cup (IF Truthy(p.testing)
            THEN (IF p.language = "ts" THEN {"jest", "@types/jest", "ts-jest"} ELSE {"jest"})
                 \cup {"supertest", "@types/supertest"}
            ELSE {})
      \cup (IF Truthy(p.eslint)
            THEN {"eslint"} \cup (IF p.language = "ts"
                                  THEN {"@typescript-eslint/eslint-plugin",
                                        "@typescript-eslint/parser"}
                                  ELSE {})
            ELSE {})
      \cup (IF Truthy(p.prettier)
            THEN {"prettier"} \cup (IF Truthy(p.eslint)
                                    THEN {"eslint-config-prettier", "eslint-plugin-prettier"}
                                    ELSE {})
            ELSE {})
      \cup Range(getDatabaseDependencies(p.database, p.orm).devDependencies)
      \cup Range(getAuthDependencies(p.auth).devDependencies))

\* generateScripts adding the lint scripts whatever config.eslint is
generateScriptsLintAlways(p) ==
    (IF p.language = "ts" THEN {"build", "start", "dev", "dev:watch"} ELSE {"start", "dev"})
    \cup (IF Truthy(p.testing) THEN {"test", "test:watch", "test:coverage"} ELSE {})
    \cup {"lint", "lint:fix"}
    \cup (IF Truthy(p.prettier) THEN {"format"} ELSE {})
    \cup (IF p.orm = "prisma" THEN {"db:generate", "db:push", "db:migrate", "db:studio"} ELSE {})

generateScripts(p) ==
    (IF p.language = "ts" THEN {"build", "start", "dev", "dev:watch"} ELSE {"start", "dev"})
    \cup (IF Truthy(p.testing) THEN {"test", "test:watch", "test:coverage"} ELSE {})
    \cup (IF Truthy(p.eslint) THEN {"lint", "lint:fix"} ELSE {})
    \cup (IF Truthy(p.prettier) THEN {"format"} ELSE {})
    \cup (IF p.orm = "prisma" THEN {"db:generate", "db:push", "db:migrate", "db:studio"} ELSE {})

NoManifest ==
    [threw |-> FALSE, main |-> U, scripts |-> {}, dependencies |-> {}, devDependencies |-> {}]

\* generatePackageJson: the record written to package.json, or the exception
generatePackageJson(p) ==
    LET deps    == generateDependencies(p)
        devDeps == IF p.language = "ts" THEN generateDevDependencies(p) ELSE Returned({})
    IN IF deps.threw \/ devDeps.threw
       THEN [NoManifest EXCEPT !.threw = TRUE]
       ELSE [ threw           |-> FALSE,
              main            |-> IF p.language = "ts" THEN "dist/server.js" ELSE "src/server.js",
              scripts         |-> generateScripts(p),
              dependencies    |-> deps.names,
              devDependencies |-> devDeps.names ]

----------------------------------------------------------------------------
(* Inputs of the generators *)

NoProjectConfig == [name |-> U]

\* no file written yet
NoArtifacts == [f \in {} |-> EmptyArtifact]

\* no package.json read yet
NoPackageJson == [name |-> U]

\* what a ProjectConfig may carry in its optional swagger sub-record
SwaggerRecords == {[enabled |-> T, path |-> "/docs"], [enabled |-> F, path |-> "/docs"]}

BaseProjectConfigs ==
    [ name : {ProjectName}, language : {"ts", "js"}, packageManager : {"npm"},
      style : {"resource"},
      database : {U, "none", "mongodb", "postgres"},
      orm : {U, "mongoose", "prisma", "sequelize", "typeorm"},
      auth : {U, "none", "jwt", "passport"},
      testing : BOOL, eslint : BOOL, prettier : BOOL, docker : {F}, git : {F},
      light : {F}, boilerplateLevel : {"full"}, includeValidation : {T} ]

WithSwagger(p, sw) ==
    [f \in DOMAIN p \cup {"swagger"} |-> IF f = "swagger" THEN sw ELSE p[f]]

\* every ProjectConfig shape: without the swagger sub-record, or with it
ProjectConfigs ==
    BaseProjectConfigs \cup {WithSwagger(p, sw) : p \in BaseProjectConfigs, sw \in SwaggerRecords}

\* the fields generateResource reads
ResourceProjectConfigs == {p \in BaseProjectConfigs : p.eslint = F /\ p.prettier = F}

ResourceConfigs ==
    [ name : {"order", "post"}, generateTests : BOOL, withAuth : BOOL,
      boilerplateLevel : {"minimal", "full", "signatures"}, includeValidation : BOOL,
      customEndpoints : {<< >>, <<"activate">>} ]

----------------------------------------------------------------------------
(* Idle values of the variables a specification does not use *)

ResolverIdle ==
    /\ options = NoOptions
    /\ lightMode = U
    /\ configureMore = U
    /\ answers = NoAnswers
    /\ ormChoices = {}
    /\ config = NoConfig

ResourceIdle ==
    /\ resourceOptions = NoResourceOptions
    /\ resourceAnswers = NoResourceAnswers
    /\ resourceConfig = NoResourceConfig

GenIdle ==
    /\ projectConfig = NoProjectConfig
    /\ written = {}
    /\ routes = NoRoutes
    /\ manifest = NoManifest
    /\ artifacts = NoArtifacts

StoreIdle ==
    /\ items = << >>
    /\ nextId = 1
    /\ result = [call |-> U, param |-> U, truthy |-> FALSE, record |-> << >>]
    /\ status = 0

AddIdle ==
    /\ packageJson = NoPackageJson
    /\ cwd = [ manifest |-> [name |-> U], hasPackageJson |-> FALSE, hasSrc |-> FALSE,
                hasResource |-> FALSE, hasTsConfig |-> FALSE ]

NoCommand == [cmd |-> U, arg |-> U, exit |-> 0]

RunIdle ==
    /\ disk = {}
    /\ command = NoCommand
    /\ trace = << >>
    /\ pending = {}

RegistrarIdle ==
    /\ resourceKinds = << >>
    /\ invoked = << >>
    /\ reports = << >>

----------------------------------------------------------------------------
(* Actions of promptProjectConfig *)

Init ==
    /\ pc = "start"
    /\ options \in OptionsUpTo(MaxExplicit)
    /\ lightMode = U
    /\ configureMore = U
    /\ answers = NoAnswers
    /\ asked = << >>
    /\ ormChoices = {}
    /\ config = NoConfig
    /\ ResourceIdle
    /\ GenIdle
    /\ StoreIdle
    /\ AddIdle
    /\ RunIdle
    /\ RegistrarIdle

\* promptLightMode with options.light explicit
LightModeExplicit ==
    /\ pc = "start"
    /\ options.light # U
    /\ lightMode' = options.light
    /\ pc' = "lightDecided"
    /\ UNCHANGED <<runVars, registrarVars, storeVars, addVars, options, configureMore, answers, asked, ormChoices, config, resourceVars, genVars>>

\* promptLightMode asking the user
LightModeAsked ==
    /\ pc = "start"
    /\ options.light = U
    /\ \E ans \in BOOL : lightMode' = ans
    /\ asked' = Append(asked, "light")
    /\ pc' = "lightDecided"
    /\ UNCHANGED <<runVars, registrarVars, storeVars, addVars, options, configureMore, answers, ormChoices, config, resourceVars, genVars>>

LightFlow ==
    /\ pc = "lightDecided"
    /\ lightMode = T
    /\ config' = createLightConfig(options)
    /\ pc' = "returned"
    /\ UNCHANGED <<runVars, registrarVars, storeVars, addVars, options, lightMode, configureMore, answers, asked, ormChoices, resourceVars, genVars>>

PromptConfigureMore ==
    /\ pc = "lightDecided"
    /\ lightMode # T
    /\ \E ans \in BOOL : configureMore' = ans
    /\ asked' = Append(asked, "configureMore")
    /\ pc' = "moreDecided"
    /\ UNCHANGED <<runVars, registrarVars, storeVars, addVars, options, lightMode, answers, ormChoices, config, resourceVars, genVars>>

\* DefaultFlow putting the language question before it builds the record
DefaultFlowAsking ==
    /\ pc = "moreDecided"
    /\ configureMore = F
    /\ config' = createDefaultConfig(options)
    /\ asked' = Append(asked, "language")
    /\ pc' = "returned"
    /\ UNCHANGED <<runVars, registrarVars, storeVars, addVars, options, lightMode, configureMore, answers, ormChoices, resourceVars, genVars>>

DefaultFlow ==
    /\ pc = "moreDecided"
    /\ configureMore = F
    /\ config' = createDefaultConfig(options)
    /\ pc' = "returned"
    /\ UNCHANGED <<runVars, registrarVars, storeVars, addVars, options, lightMode, configureMore, answers, asked, ormChoices, resourceVars, genVars>>

\* promptFullConfiguration: the question list is answered and the record built
FullFlow ==
    /\ pc = "moreDecided"
    /\ configureMore = T
    /\ \E a \in AnswerSets(options) :
          /\ answers' = a
          /\ asked' = asked \o AskedIn(options, a)
          /\ ormChoices' = IF OrmWhen(options, a) THEN OrmQuestionChoices(options, a) ELSE {}
          /\ config' = FullConfig(options, a)
    /\ pc' = "returned"
    /\ UNCHANGED <<runVars, registrarVars, storeVars, addVars, options, lightMode, configureMore, resourceVars, genVars>>

\* the orm question is put with an empty choice list: the list prompt has no
\* entry to return, and the prompt library may reject instead of answering
FullFlowRejects ==
    /\ pc = "moreDecided"
    /\ configureMore = T
    /\ \E a \in AnswerSets(options) :
          /\ OrmWhen(options, a)
          /\ OrmQuestionChoices(options, a) = {}
          /\ answers' = a
          /\ asked' = asked \o SubSeq(AskedIn(options, a), 1, OrmPosition(AskedIn(options, a)))
          /\ ormChoices' = {}
    /\ pc' = "failed"
    /\ UNCHANGED <<runVars, registrarVars, storeVars, addVars, options, lightMode, configureMore, config, resourceVars, genVars>>

Next ==
    \/ LightModeExplicit
    \/ LightModeAsked
    \/ LightFlow
    \/ PromptConfigureMore
    \/ DefaultFlow
    \/ FullFlow
    \/ FullFlowRejects

Spec == Init /\ [][Next]_vars

----------------------------------------------------------------------------
(* promptResourceConfig as a specification of its own *)

InitResource ==
    /\ pc = "resourceStart"
    /\ asked = << >>
    /\ resourceOptions \in ResourceOptionSets
    /\ resourceAnswers = NoResourceAnswers
    /\ resourceConfig = NoResourceConfig
    /\ ResolverIdle
    /\ GenIdle
    /\ StoreIdle
    /\ AddIdle
    /\ RunIdle
    /\ RegistrarIdle

PromptResourceConfig ==
    /\ pc = "resourceStart"
    /\ \E a \in ResourceAnswerSets(resourceOptions) :
          /\ resourceAnswers' = a
          /\ asked' = ResourceAskedIn(resourceOptions, a)
          /\ resourceConfig' = ResourceConfigOf(resourceOptions, a)
    /\ pc' = "resourceResolved"
    /\ UNCHANGED <<runVars, registrarVars, storeVars, addVars, resourceOptions, resolverVars, genVars>>

NextResource == PromptResourceConfig

SpecResource == InitResource /\ [][NextResource]_vars

----------------------------------------------------------------------------
(* generateResource as a specification of its own *)

InitGenerate ==
    /\ pc = "generateStart"
    /\ asked = << >>
    /\ projectConfig \in ResourceProjectConfigs
    /\ resourceConfig \in ResourceConfigs
    /\ resourceOptions = NoResourceOptions
    /\ resourceAnswers = NoResourceAnswers
    /\ written = {}
    /\ routes = NoRoutes
    /\ manifest = NoManifest
    /\ artifacts = NoArtifacts
    /\ ResolverIdle
    /\ StoreIdle
    /\ AddIdle
    /\ RunIdle
    /\ RegistrarIdle

GenerateResource ==
    /\ pc = "generateStart"
    /\ written' = ResourceFiles(projectConfig, resourceConfig)
    /\ routes' = generateRoutesContent(projectConfig, resourceConfig)
    /\ artifacts' = ResourceArtifacts(projectConfig, resourceConfig)
    /\ pc' = "resourceGenerated"
    /\ UNCHANGED <<runVars, registrarVars, storeVars, addVars, asked, projectConfig, manifest, resolverVars, resourceVars>>

NextGenerate == GenerateResource

SpecGenerate == InitGenerate /\ [][NextGenerate]_vars

----------------------------------------------------------------------------
(* The dependency matrix as a specification of its own *)

InitDeps ==
    /\ pc = "packageJsonStart"
    /\ asked = << >>
    /\ projectConfig \in ProjectConfigs
    /\ written = {}
    /\ routes = NoRoutes
    /\ manifest = NoManifest
    /\ artifacts = NoArtifacts
    /\ ResolverIdle
    /\ ResourceIdle
    /\ StoreIdle
    /\ AddIdle
    /\ RunIdle
    /\ RegistrarIdle

GeneratePackageJson ==
    /\ pc = "packageJsonStart"
    /\ manifest' = generatePackageJson(projectConfig)
    /\ pc' = "packageJsonDone"
    /\ UNCHANGED <<runVars, registrarVars, storeVars, addVars, asked, projectConfig, written, routes, artifacts, resolverVars, resourceVars>>

NextDeps == GeneratePackageJson

SpecDeps == InitDeps /\ [][NextDeps]_vars

----------------------------------------------------------------------------
(* createProject with the options of a PostgreSQL / Prisma request:        *)
(* promptProjectConfig, then generateProject's first step                  *)

\* the options record of `--with-db --db postgres --orm prisma`
PrismaRequest(o) == [o EXCEPT !.withDb = T, !.db = "postgres", !.orm = "prisma"]

InitPrismaRequest ==
    /\ pc = "start"
    /\ options \in {PrismaRequest(o) : o \in OptionsUpTo(MaxExplicit)}
    /\ lightMode = U
    /\ configureMore = U
    /\ answers = NoAnswers
    /\ asked = << >>
    /\ ormChoices = {}
    /\ config = NoConfig
    /\ ResourceIdle
    /\ GenIdle
    /\ StoreIdle
    /\ AddIdle
    /\ RunIdle
    /\ RegistrarIdle

\* generateProject hands the resolved config to generatePackageJson first
GenerateProjectManifest ==
    /\ pc = "returned"
    /\ projectConfig' = config
    /\ manifest' = generatePackageJson(config)
    /\ pc' = IF generatePackageJson(config).threw THEN "exited" ELSE "packageJsonDone"
    /\ UNCHANGED <<runVars, registrarVars, asked, written, routes, artifacts, resolverVars, resourceVars,
                   storeVars, addVars>>

NextPrismaRequest ==
    \/ LightModeExplicit
    \/ LightModeAsked
    \/ LightFlow
    \/ PromptConfigureMore
    \/ DefaultFlow
    \/ FullFlow
    \/ GenerateProjectManifest

SpecPrismaRequest == InitPrismaRequest /\ [][NextPrismaRequest]_vars

----------------------------------------------------------------------------
(* The generated in-memory service (no database configured) behind the     *)
(* generated controller                                                    *)

\* the service is created at most this many records in a run
MaxCreated == 2

\* request bodies that pass validate<Name>: a name, and possibly an id
DataIds == 1..(MaxCreated + 1)
RequestBodies == [name : {"ab", "cd"}] \cup [name : {"ab", "cd"}, id : DataIds]

\* req.params.id is text
IdParams == {"1", "2", "3", "4", "2abc", "abc", "999999"}

\* parseInt(id): leading digits are read, text without them gives NaN
ParsesToNumber(s) == s # "abc"
ParseInt(s) ==
    CASE s = "1" -> 1
      [] s = "2" -> 2
      [] s = "3" -> 3
      [] s = "4" -> 4
      [] s = "2abc" -> 2
      [] s = "999999" -> 999999
      [] OTHER -> 0

\* item.id === parseInt(id); NaN is equal to nothing
IdMatches(item, id) == ParsesToNumber(id) /\ item.id = ParseInt(id)

\* a lookup that lands on the last record when nothing matches
findIndexOrLast(list, id) ==
    IF \E i \in DOMAIN list : IdMatches(list[i], id)
    THEN CHOOSE i \in DOMAIN list :
             IdMatches(list[i], id) /\ \A j \in 1..(i - 1) : ~IdMatches(list[j], id)
    ELSE Len(list)

\* this.<name>s.findIndex(item => item.id === parseInt(id)); 0 stands for -1
findIndex(list, id) ==
    IF \E i \in DOMAIN list : IdMatches(list[i], id)
    THEN CHOOSE i \in DOMAIN list :
             IdMatches(list[i], id) /\ \A j \in 1..(i - 1) : ~IdMatches(list[j], id)
    ELSE 0

\* list.splice(index, 1)
Splice(list, index) == SubSeq(list, 1, index - 1) \o SubSeq(list, index + 1, Len(list))

\* { id: this.nextId++, ...data, createdAt: new Date() }
NewRecord(counter, data) ==
    [ id        |-> IF "id" \in DOMAIN data THEN data.id ELSE counter,
      name      |-> data.name,
      createdAt |-> "date",
      updatedAt |-> U ]

\* { ...existing, ...data, updatedAt: new Date() }
UpdatedRecord(existing, data) ==
    [ id        |-> IF "id" \in DOMAIN data THEN data.id ELSE existing.id,
      name      |-> data.name,
      createdAt |-> existing.createdAt,
      updatedAt |-> "date" ]

\* what a service call returned: the call, whether the value is truthy, and
\* the record returned (none for null and for the booleans of delete)
NoResult == [call |-> U, param |-> U, truthy |-> FALSE, record |-> << >>]

InitStore ==
    /\ pc = "serving"
    /\ asked = << >>
    /\ items = << >>
    /\ nextId = 1
    /\ result = NoResult
    /\ status = 0
    /\ ResolverIdle
    /\ ResourceIdle
    /\ GenIdle
    /\ AddIdle
    /\ RunIdle
    /\ RegistrarIdle

\* POST /: controller.create calls service.create(req.body) and answers 201
ControllerCreate ==
    /\ pc = "serving"
    /\ nextId <= MaxCreated
    /\ \E data \in RequestBodies :
          LET new == NewRecord(nextId, data) IN
          /\ nextId' = nextId + 1
          /\ items' = Append(items, new)
          /\ result' = [call |-> "create", param |-> U, truthy |-> TRUE, record |-> <<new>>]
    /\ status' = 201
    /\ UNCHANGED <<runVars, registrarVars, pc, asked, resolverVars, resourceVars, genVars, addVars>>

\* PUT /:id: controller.update calls service.update(req.params.id, req.body)
\* and answers 404 when the value returned is falsy
ControllerUpdate ==
    /\ pc = "serving"
    /\ \E id \in IdParams, data \in RequestBodies :
          LET index == findIndex(items, id) IN
          IF index = 0
          THEN /\ result' = [call |-> "update", param |-> id, truthy |-> FALSE,
                             record |-> << >>]
               /\ status' = 404
               /\ UNCHANGED items
          ELSE /\ items' = [items EXCEPT ![index] = UpdatedRecord(items[index], data)]
               /\ result' = [call |-> "update", param |-> id, truthy |-> TRUE,
                             record |-> <<UpdatedRecord(items[index], data)>>]
               /\ status' = 200
    /\ UNCHANGED <<runVars, registrarVars, pc, asked, nextId, resolverVars, resourceVars, genVars, addVars>>

\* DELETE /:id: controller.delete calls service.delete(req.params.id) and
\* answers 404 when it returned false
ControllerDelete ==
    /\ pc = "serving"
    /\ \E id \in IdParams :
          LET index == findIndex(items, id) IN
          IF index = 0
          THEN /\ result' = [call |-> "delete", param |-> id, truthy |-> FALSE,
                             record |-> << >>]
               /\ status' = 404
               /\ UNCHANGED items
          ELSE /\ items' = Splice(items, index)
               /\ result' = [call |-> "delete", param |-> id, truthy |-> TRUE,
                             record |-> << >>]
               /\ status' = 200
    /\ UNCHANGED <<runVars, registrarVars, pc, asked, nextId, resolverVars, resourceVars, genVars, addVars>>

NextStore ==
    \/ ControllerCreate
    \/ ControllerUpdate
    \/ ControllerDelete

SpecStore == InitStore /\ [][NextStore]_vars

----------------------------------------------------------------------------
(* generateProject: generatePackageJson, generateAppFiles,                 *)
(* generateResourceFiles, generateConfigFiles; and generateSwaggerConfig   *)

\* src/app: the import block follows the dialect, the closing
\* `export default app;` is emitted for both
generateAppContent(p) ==
    [ EmptyArtifact EXCEPT
        !.forms   = (IF p.language = "ts" THEN {"import"} ELSE {"require"}) \cup {"export"},
        !.imports = {From("./middleware/errorHandler", "errorHandler")}
                    \cup (IF SwaggerEnabled(p) THEN {From("./swagger", "SwaggerSetup")} ELSE {})
                    \cup (IF p.style = "resource"
                          THEN {From("./utils/registerResources", "registerResources")}
                          ELSE {}),
        !.exports = {"app"} ]

generateServerContent(p) ==
    [ EmptyArtifact EXCEPT
        !.forms   = IF p.language = "ts" THEN {"import"} ELSE {"require"},
        !.imports = {From("./app", "app")} ]

\* utils/registerResources: both dialects load each resource index with require
generateRegisterResourcesUtil(p) ==
    [ EmptyArtifact EXCEPT
        !.forms   = IF p.language = "ts" THEN Esm(TRUE) \cup {"require"} ELSE CommonJs,
        !.exports = {"registerResources"} ]

errorHandlerContent(p) ==
    [ EmptyArtifact EXCEPT
        !.forms   = IF p.language = "ts" THEN Esm(TRUE) ELSE {"module.exports"},
        !.exports = {"errorHandler"} ]

\* middleware/auth: written for jwt, left empty for passport
authMiddlewareContent(p) ==
    IF p.auth = "jwt"
    THEN [ EmptyArtifact EXCEPT
             !.forms   = IF p.language = "ts" THEN Esm(TRUE) ELSE CommonJs,
             !.exports = {"authenticateToken"} ]
    ELSE EmptyArtifact

\* the files generateMiddlewareFiles writes
MiddlewareArtifacts(p) ==
    [ f \in {"src/middleware/errorHandler" \o Ext(p)}
            \cup (IF Truthy(p.auth) /\ p.auth # "none"
                  THEN {"src/middleware/auth" \o Ext(p)} ELSE {}) |->
        IF f = "src/middleware/errorHandler" \o Ext(p)
        THEN errorHandlerContent(p) ELSE authMiddlewareContent(p) ]

Restrict(f, S) == [x \in S |-> f[x]]

\* the files of the example resource, below src/resources/user/
UserResourceArtifacts(p) ==
    LET ra == ResourceArtifacts(p, userResourceConfig(p)) IN
    [ f \in {"src/resources/user/" \o g : g \in DOMAIN ra} |->
        ra[CHOOSE g \in DOMAIN ra : "src/resources/user/" \o g = f] ]

AppArtifacts(p) ==
    ("src/app" \o Ext(p) :> generateAppContent(p))
    @@ ("src/server" \o Ext(p) :> generateServerContent(p))

RegistrarArtifacts(p) ==
    "src/utils/registerResources" \o Ext(p) :> generateRegisterResourcesUtil(p)

\* src/swagger: the interface, the typed class and its export are emitted for
\* both dialects, and loadSpec calls require in both
generateSwaggerSetup(p) ==
    [ EmptyArtifact EXCEPT
        !.forms   = (IF p.language = "ts" THEN {"import"} ELSE {"require", "module.exports"})
                    \cup {"types", "export", "require"},
        !.exports = {"SwaggerSetup"} ]

\* utils/swagger: `export const` and `export function` for both dialects
generateSwaggerUtils(p) ==
    [ EmptyArtifact EXCEPT
        !.forms   = (IF p.language = "ts" THEN {"import", "types"}
                     ELSE {"require", "module.exports"}) \cup {"export"},
        !.exports = {"SwaggerHelpers", "apiDoc", "swaggerRoute", "generateCRUDDocs"} ]

\* middleware/swagger: `export function` and `): boolean` for both dialects
generateSwaggerMiddleware(p) ==
    [ EmptyArtifact EXCEPT
        !.forms   = (IF p.language = "ts" THEN {"import"}
                     ELSE {"require", "module.exports"}) \cup {"export", "types"},
        !.exports = {"swaggerLogger", "validateSwaggerSchema", "swaggerCors"} ]

SwaggerArtifacts(p) ==
    ("src/swagger" \o Ext(p) :> generateSwaggerSetup(p))
    @@ ("src/utils/swagger" \o Ext(p) :> generateSwaggerUtils(p))
    @@ ("src/middleware/swagger" \o Ext(p) :> generateSwaggerMiddleware(p))

InitProject ==
    /\ pc = "generateProjectStart"
    /\ asked = << >>
    /\ projectConfig \in ProjectConfigs
    /\ written = {}
    /\ routes = NoRoutes
    /\ manifest = NoManifest
    /\ artifacts = NoArtifacts
    /\ ResolverIdle
    /\ ResourceIdle
    /\ StoreIdle
    /\ AddIdle
    /\ RunIdle
    /\ RegistrarIdle

\* generateProject running to its end
GenerateProject ==
    /\ pc = "generateProjectStart"
    /\ ~generatePackageJson(projectConfig).threw
    /\ manifest' = generatePackageJson(projectConfig)
    /\ artifacts' = AppArtifacts(projectConfig)
                    @@ (IF projectConfig.style = "resource"
                        THEN RegistrarArtifacts(projectConfig)
                             @@ MiddlewareArtifacts(projectConfig)
                             @@ UserResourceArtifacts(projectConfig)
                        ELSE NoArtifacts)
    /\ routes' = IF projectConfig.style = "resource"
                 THEN generateRoutesContent(projectConfig, userResourceConfig(projectConfig))
                 ELSE routes
    /\ written' = {"package.json", ".env", ".env.example"}
                  \cup DOMAIN artifacts' \cup generateConfigFiles(projectConfig)
    /\ pc' = "projectGenerated"
    /\ UNCHANGED <<runVars, registrarVars, asked, projectConfig, resolverVars, resourceVars, storeVars, addVars>>

\* generatePackageJson throws on the absent swagger sub-record: nothing is written
GenerateProjectThrows ==
    /\ pc = "generateProjectStart"
    /\ generatePackageJson(projectConfig).threw
    /\ manifest' = generatePackageJson(projectConfig)
    /\ pc' = "exited"
    /\ UNCHANGED <<runVars, registrarVars, asked, projectConfig, written, routes, artifacts, resolverVars,
                   resourceVars, storeVars, addVars>>

\* generateMiddlewareFiles starts ensureDir(middleware) and its writeFile calls
\* together: a write that runs before the directory exists is rejected, and
\* generateProject stops there
GenerateProjectMiddlewareRace ==
    /\ pc = "generateProjectStart"
    /\ ~generatePackageJson(projectConfig).threw
    /\ projectConfig.style = "resource"
    /\ manifest' = generatePackageJson(projectConfig)
    /\ \E done \in SUBSET DOMAIN MiddlewareArtifacts(projectConfig) :
          /\ done # DOMAIN MiddlewareArtifacts(projectConfig)
          /\ artifacts' = AppArtifacts(projectConfig)
                          @@ RegistrarArtifacts(projectConfig)
                          @@ Restrict(MiddlewareArtifacts(projectConfig), done)
    /\ written' = {"package.json", ".env", ".env.example"} \cup DOMAIN artifacts'
    /\ pc' = "exited"
    /\ UNCHANGED <<runVars, registrarVars, asked, projectConfig, routes, resolverVars, resourceVars, storeVars,
                   addVars>>

\* generateSwaggerConfig on the generated project
GenerateSwaggerConfig ==
    /\ pc = "projectGenerated"
    /\ IF SwaggerEnabled(projectConfig)
       THEN /\ artifacts' = SwaggerArtifacts(projectConfig) @@ artifacts
            /\ written' = written \cup DOMAIN SwaggerArtifacts(projectConfig)
                          \cup {"src/docs/swagger.json", "src/docs/swagger.yaml"}
       ELSE UNCHANGED <<runVars, registrarVars, artifacts, written>>
    /\ pc' = "swaggerGenerated"
    /\ UNCHANGED <<runVars, registrarVars, asked, projectConfig, routes, manifest, resolverVars, resourceVars,
                   storeVars, addVars>>

NextProject ==
    \/ GenerateProject
    \/ GenerateProjectThrows
    \/ GenerateProjectMiddlewareRace
    \/ GenerateSwaggerConfig

SpecProject == InitProject /\ [][NextProject]_vars

----------------------------------------------------------------------------
(* addResource: the project is read back from package.json and tsconfig    *)

\* { ...packageJson.dependencies, ...packageJson.devDependencies }: the names
\* of both maps, a missing map spreading to nothing
Deps(pkg) ==
    (IF "dependencies" \in DOMAIN pkg THEN pkg.dependencies ELSE {})
    \cup (IF "devDependencies" \in DOMAIN pkg THEN pkg.devDependencies ELSE {})

\* a lookup that knows the document-store adapter only
detectDatabaseMongooseOnly(pkg) ==
    IF "mongoose" \in Deps(pkg) THEN "mongodb"
    ELSE "none"

detectDatabase(pkg) ==
    IF "mongoose" \in Deps(pkg) THEN "mongodb"
    ELSE IF "pg" \in Deps(pkg) \/ "@prisma/client" \in Deps(pkg) THEN "postgres"
    ELSE "none"

detectORM(pkg) ==
    IF "mongoose" \in Deps(pkg) THEN "mongoose"
    ELSE IF "@prisma/client" \in Deps(pkg) \/ "prisma" \in Deps(pkg) THEN "prisma"
    ELSE IF "sequelize" \in Deps(pkg) THEN "sequelize"
    ELSE IF "typeorm" \in Deps(pkg) THEN "typeorm"
    ELSE U

\* a lookup that falls back on token auth
detectAuthDefaultJwt(pkg) ==
    IF "jsonwebtoken" \in Deps(pkg) THEN "jwt"
    ELSE IF "passport" \in Deps(pkg) THEN "passport"
    ELSE "jwt"

detectAuth(pkg) ==
    IF "jsonwebtoken" \in Deps(pkg) THEN "jwt"
    ELSE IF "passport" \in Deps(pkg) THEN "passport"
    ELSE "none"

\* packageJson.devDependencies?.jest || packageJson.dependencies?.jest
hasJest(pkg) == "jest" \in Deps(pkg)

\* the projectConfig literal of addResource
DetectedConfig(pkg, tsconfig) ==
    [ name              |-> pkg.name,
      language          |-> IF tsconfig THEN "ts" ELSE "js",
      packageManager    |-> "npm",
      style             |-> "resource",
      database          |-> detectDatabase(pkg),
      orm               |-> detectORM(pkg),
      auth              |-> detectAuth(pkg),
      testing           |-> Bool(hasJest(pkg)),
      eslint            |-> F,
      prettier          |-> F,
      docker            |-> F,
      git               |-> F,
      light             |-> F,
      boilerplateLevel  |-> "full",
      includeValidation |-> T ]

\* the package.json a created project holds
ManifestOf(p) ==
    [ name            |-> p.name,
      dependencies    |-> generatePackageJson(p).dependencies,
      devDependencies |-> generatePackageJson(p).devDependencies ]

\* configs projects were created from: every (database, orm) combination, with
\* the swagger sub-record generatePackageJson needs
CreatedConfigs ==
    { WithSwagger(p, [enabled |-> F, path |-> "/docs"]) :
        p \in { q \in BaseProjectConfigs :
                  /\ q.eslint = F /\ q.prettier = F
                  /\ <<q.auth, q.testing>> \in {<<U, F>>, <<"jwt", T>>, <<"passport", F>>} } }

\* package.json files of other origin, maps missing or without a known name
ForeignManifests ==
    { [name |-> "other"],
      [name |-> "other", dependencies |-> {"express"}],
      [name |-> "other", devDependencies |-> {"nodemon"}],
      [name |-> "other", dependencies |-> {"express", "dotenv"},
                         devDependencies |-> {"typescript"}] }

Directory(m, tsconfig) ==
    [ manifest |-> m, hasPackageJson |-> TRUE, hasSrc |-> TRUE, hasResource |-> FALSE,
      hasTsConfig |-> tsconfig ]

\* directories addResource turns down
BrokenDirectories ==
    LET d == Directory([name |-> "other", dependencies |-> {"express"}], TRUE) IN
    { [d EXCEPT !.hasPackageJson = FALSE], [d EXCEPT !.hasSrc = FALSE],
      [d EXCEPT !.hasResource = TRUE] }

\* --no-tests and --with-auth as commander hands them over
AddOptionSets ==
    { [NoResourceOptions EXCEPT !.tests = t, !.withAuth = w] : t \in BOOL, w \in {U, T} }

InitAdd ==
    /\ pc = "addStart"
    /\ asked = << >>
    /\ \/ \E p \in CreatedConfigs :
             /\ config = p
             /\ cwd = Directory(ManifestOf(p), p.language = "ts")
       \/ /\ config = NoConfig
          /\ cwd \in {Directory(m, t) : m \in ForeignManifests, t \in BOOLEAN}
                     \cup BrokenDirectories
    /\ packageJson = NoPackageJson
    /\ resourceOptions \in AddOptionSets
    /\ resourceAnswers = NoResourceAnswers
    /\ resourceConfig = NoResourceConfig
    /\ options = NoOptions
    /\ lightMode = U
    /\ configureMore = U
    /\ answers = NoAnswers
    /\ ormChoices = {}
    /\ GenIdle
    /\ StoreIdle
    /\ RunIdle
    /\ RegistrarIdle

\* addResource running to its end
AddResource ==
    /\ pc = "addStart"
    /\ cwd.hasPackageJson /\ cwd.hasSrc /\ ~cwd.hasResource
    /\ packageJson' = cwd.manifest
    /\ projectConfig' = DetectedConfig(cwd.manifest, cwd.hasTsConfig)
    /\ \E a \in ResourceAnswerSets(resourceOptions) :
          /\ resourceAnswers' = a
          /\ asked' = ResourceAskedIn(resourceOptions, a)
          /\ resourceConfig' = ResourceConfigOf(resourceOptions, a)
    /\ written' = ResourceFiles(projectConfig', resourceConfig')
    /\ routes' = generateRoutesContent(projectConfig', resourceConfig')
    /\ artifacts' = ResourceArtifacts(projectConfig', resourceConfig')
    /\ pc' = "added"
    /\ UNCHANGED <<runVars, registrarVars, cwd, resourceOptions, manifest, resolverVars, storeVars>>

\* package.json or src missing, or the resource directory already there
AddResourceExits ==
    /\ pc = "addStart"
    /\ ~cwd.hasPackageJson \/ ~cwd.hasSrc \/ cwd.hasResource
    /\ pc' = "exited"
    /\ UNCHANGED <<runVars, registrarVars, asked, resolverVars, resourceVars, genVars, storeVars, addVars>>

NextAdd ==
    \/ AddResource
    \/ AddResourceExits

SpecAdd == InitAdd /\ [][NextAdd]_vars

----------------------------------------------------------------------------
(* generateMiddlewareFiles, one file-system operation at a time *)

MiddlewareDir == "src/middleware"

FsStep(op, path, error) == [op |-> op, path |-> path, error |-> error]

\* the operations generateMiddlewareFiles pushes before it reaches Promise.all
MiddlewareOperations(p) ==
    {FsStep("ensureDir", MiddlewareDir, U)}
    \cup {FsStep("writeFile", f, U) : f \in DOMAIN MiddlewareArtifacts(p)}

\* the configs generateProject gets as far as generateMiddlewareFiles with
MiddlewareConfigs ==
    {p \in ProjectConfigs : p.style = "resource" /\ ~generatePackageJson(p).threw}

\* the state generateResourceFiles calls generateMiddlewareFiles in: the
\* manifest, the entrypoints and the registrar are written, src/middleware is not
InitMiddleware ==
    /\ pc = "middlewareStart"
    /\ asked = << >>
    /\ projectConfig \in MiddlewareConfigs
    /\ manifest = generatePackageJson(projectConfig)
    /\ artifacts = AppArtifacts(projectConfig) @@ RegistrarArtifacts(projectConfig)
    /\ written = {"package.json", ".env", ".env.example"} \cup DOMAIN artifacts
    /\ routes = NoRoutes
    /\ disk = {"src", "src/utils"} \cup written
    /\ command = NoCommand
    /\ trace = << >>
    /\ pending = {}
    /\ ResolverIdle
    /\ ResourceIdle
    /\ StoreIdle
    /\ AddIdle
    /\ RegistrarIdle

\* the synchronous part: ensureDir and every writeFile are started, none awaited
StartMiddlewareOperations ==
    /\ pc = "middlewareStart"
    /\ pending' = MiddlewareOperations(projectConfig)
    /\ pc' = "middlewareRunning"
    /\ UNCHANGED <<registrarVars, asked, disk, command, trace, resolverVars, resourceVars,
                   genVars, storeVars, addVars>>

\* the directory creation is carried out
CompleteEnsureDir ==
    /\ \E o \in pending :
          /\ o.op = "ensureDir"
          /\ disk' = disk \cup {o.path}
          /\ trace' = Append(trace, o)
          /\ pending' = pending \ {o}
    /\ UNCHANGED <<registrarVars, pc, asked, command, resolverVars, resourceVars, genVars,
                   storeVars, addVars>>

\* a write is carried out in an existing directory
CompleteWriteFile ==
    /\ \E o \in pending :
          /\ o.op = "writeFile"
          /\ MiddlewareDir \in disk
          /\ disk' = disk \cup {o.path}
          /\ written' = written \cup {o.path}
          /\ artifacts' = (o.path :> MiddlewareArtifacts(projectConfig)[o.path]) @@ artifacts
          /\ trace' = Append(trace, o)
          /\ pending' = pending \ {o}
    /\ UNCHANGED <<registrarVars, pc, asked, command, projectConfig, routes, manifest,
                   resolverVars, resourceVars, storeVars, addVars>>

\* a write is carried out before its directory exists: open fails with ENOENT
RejectWriteFile ==
    /\ \E o \in pending :
          /\ o.op = "writeFile"
          /\ MiddlewareDir \notin disk
          /\ trace' = Append(trace, [o EXCEPT !.error = "ENOENT"])
          /\ pending' = pending \ {o}
    /\ UNCHANGED <<registrarVars, pc, asked, disk, command, resolverVars, resourceVars,
                   genVars, storeVars, addVars>>

Rejections == {i \in 1..Len(trace) : trace[i].error # U}

\* Promise.all settling with the first operation that completes
SettleMiddlewareOnFirst ==
    /\ pc = "middlewareRunning"
    /\ \/ /\ pending # MiddlewareOperations(projectConfig)
          /\ Rejections = {}
          /\ pc' = "middlewareDone"
       \/ /\ Rejections # {}
          /\ pc' = "middlewareRejected"
    /\ UNCHANGED <<registrarVars, asked, runVars, resolverVars, resourceVars, genVars,
                   storeVars, addVars>>

\* Promise.all settles: fulfilled when every operation is, rejected with the
\* first rejection
SettleMiddleware ==
    /\ pc = "middlewareRunning"
    /\ \/ /\ pending = {}
          /\ Rejections = {}
          /\ pc' = "middlewareDone"
       \/ /\ Rejections # {}
          /\ pc' = "middlewareRejected"
    /\ UNCHANGED <<registrarVars, asked, runVars, resolverVars, resourceVars, genVars,
                   storeVars, addVars>>

NextMiddleware ==
    \/ StartMiddlewareOperations
    \/ CompleteEnsureDir
    \/ CompleteWriteFile
    \/ RejectWriteFile
    \/ SettleMiddleware

SpecMiddleware == InitMiddleware /\ [][NextMiddleware]_vars

----------------------------------------------------------------------------
(* generateProject for both project styles, and the local imports of the    *)
(* artifacts it writes                                                       *)

\* every ProjectConfig shape with either style
StyledProjectConfigs ==
    ProjectConfigs \cup {[p EXCEPT !.style = "layered"] : p \in ProjectConfigs}

InitProjectStyles ==
    /\ pc = "generateProjectStart"
    /\ asked = << >>
    /\ projectConfig \in StyledProjectConfigs
    /\ written = {}
    /\ routes = NoRoutes
    /\ manifest = NoManifest
    /\ artifacts = NoArtifacts
    /\ ResolverIdle
    /\ ResourceIdle
    /\ StoreIdle
    /\ AddIdle
    /\ RunIdle
    /\ RegistrarIdle

SpecProjectStyles == InitProjectStyles /\ [][NextProject]_vars

\* the directory an artifact of the project is written to
DirOfArtifact(f, p) ==
    IF f \in DOMAIN UserResourceArtifacts(p) THEN "src/resources/user/" ELSE "src/"

\* the file a module specifier of the templates names, seen from directory dir
ImportTarget(dir, module, p) ==
    CASE module = "./middleware/errorHandler" -> dir \o "middleware/errorHandler" \o Ext(p)
      [] module = "./swagger"                 -> dir \o "swagger" \o Ext(p)
      [] module = "./utils/registerResources" -> dir \o "utils/registerResources" \o Ext(p)
      [] module = "./app"                     -> dir \o "app" \o Ext(p)
      [] module = "./service"                 -> dir \o "service" \o Ext(p)
      [] module = "./model"                   -> dir \o "model" \o Ext(p)
      [] module = "./controller"              -> dir \o "controller" \o Ext(p)
      [] module = "./validation"              -> dir \o "validation" \o Ext(p)
      [] module = "./routes"                  -> dir \o "routes" \o Ext(p)
      [] module = "../../middleware/auth"     -> "src/middleware/auth" \o Ext(p)
      [] module = "../../app"                 -> "src/app" \o Ext(p)
      [] OTHER                                -> U

\* the specifiers the templates import as a whole (import x from, x = require)
\* rather than by name
DefaultImported == {"./routes", "./app", "../../app"}

\* the import i of artifact f finds a written module that exports what it takes
ImportResolves(f, i, p, as) ==
    LET target == ImportTarget(DirOfArtifact(f, p), i.from, p) IN
    /\ target \in DOMAIN as
    /\ IF i.from \in DefaultImported
       THEN as[target].exports # {}
       ELSE i.name \in as[target].exports

----------------------------------------------------------------------------
(* The generated registerResources, one loop iteration at a time *)

MaxResources == 3

\* directory names in the order readdirSync lists them
ResourceNamePool == <<"order", "post", "product", "review", "user">>

ResourceNames == {ResourceNamePool[i] : i \in 1..MaxResources}

\* what require(<resource>/index) does: it throws, or yields a module with a
\* default export that is a function, a module that is a function itself, or
\* some other object; `throws` says whether the function throws when called
ModuleKinds ==
    [shape : {"loadFails", "object"}, throws : {FALSE}]
    \cup [shape : {"defaultFunction", "function"}, throws : BOOLEAN]

\* the function the registrar of dialect `language` finds in a loaded module
Callable(kind, language) ==
    IF language = "ts" THEN kind.shape = "defaultFunction" ELSE kind.shape = "function"

\* the two dialects of the registrar
RegistrarConfigs ==
    {p \in ResourceProjectConfigs :
        /\ p.database = U /\ p.orm = U /\ p.auth = U /\ p.testing = F}

ResourcesDir == "src/resources"

\* resourceDirs: the subdirectories of resources, in directory order
ResourceDirs ==
    SelectSeq(SubSeq(ResourceNamePool, 1, MaxResources), LAMBDA n : n \in DOMAIN resourceKinds)

Report(resource, level) == [resource |-> resource, level |-> level]

Invocation(resource) == [resource |-> resource, arg |-> "app"]

InitRegistrar ==
    /\ pc = "registrarStart"
    /\ asked = << >>
    /\ projectConfig \in RegistrarConfigs
    /\ \E dirs \in SUBSET ResourceNames : resourceKinds \in [dirs -> ModuleKinds]
    /\ disk \in {{}, {ResourcesDir}}
    /\ disk = {} => resourceKinds = << >>
    /\ invoked = << >>
    /\ reports = << >>
    /\ command = NoCommand
    /\ trace = << >>
    /\ pending = {}
    /\ written = {}
    /\ routes = NoRoutes
    /\ manifest = NoManifest
    /\ artifacts = NoArtifacts
    /\ ResolverIdle
    /\ ResourceIdle
    /\ StoreIdle
    /\ AddIdle

\* the resources directory does not exist: one warning, then return
RegistrarNoDirectory ==
    /\ pc = "registrarStart"
    /\ ResourcesDir \notin disk
    /\ reports' = Append(reports, Report(U, "warn"))
    /\ pc' = "registrarReturned"
    /\ UNCHANGED <<runVars, resourceKinds, invoked, asked, resolverVars, resourceVars,
                   genVars, storeVars, addVars>>

\* the body of the for loop escaping on the first exception
RegisterResourceUnguarded ==
    /\ pc \in {"registrarStart", "registrarLoop"}
    /\ ResourcesDir \in disk
    /\ Len(reports) < Len(ResourceDirs)
    /\ LET n    == ResourceDirs[Len(reports) + 1]
           kind == resourceKinds[n]
       IN IF kind.shape = "loadFails"
          THEN /\ pc' = "registrarReturned"
               /\ UNCHANGED <<invoked, reports>>
          ELSE IF Callable(kind, projectConfig.language)
          THEN /\ invoked' = Append(invoked, Invocation(n))
               /\ IF kind.throws
                  THEN pc' = "registrarReturned" /\ UNCHANGED reports
                  ELSE pc' = "registrarLoop" /\ reports' = Append(reports, Report(n, "log"))
          ELSE /\ reports' = Append(reports, Report(n, "warn"))
               /\ pc' = "registrarLoop"
               /\ UNCHANGED invoked
    /\ UNCHANGED <<runVars, resourceKinds, asked, resolverVars, resourceVars, genVars,
                   storeVars, addVars>>

\* the body of the for loop for the next resource directory: try { require,
\* call, log } else { warn } catch { error }
RegisterResource ==
    /\ pc \in {"registrarStart", "registrarLoop"}
    /\ ResourcesDir \in disk
    /\ Len(reports) < Len(ResourceDirs)
    /\ LET n    == ResourceDirs[Len(reports) + 1]
           kind == resourceKinds[n]
       IN IF kind.shape = "loadFails"
          THEN /\ reports' = Append(reports, Report(n, "error"))
               /\ UNCHANGED invoked
          ELSE IF Callable(kind, projectConfig.language)
          THEN /\ invoked' = Append(invoked, Invocation(n))
               /\ reports' = Append(reports, Report(n, IF kind.throws THEN "error" ELSE "log"))
          ELSE /\ reports' = Append(reports, Report(n, "warn"))
               /\ UNCHANGED invoked
    /\ pc' = "registrarLoop"
    /\ UNCHANGED <<runVars, resourceKinds, asked, resolverVars, resourceVars, genVars,
                   storeVars, addVars>>

\* the loop is over
RegistrarReturns ==
    /\ pc \in {"registrarStart", "registrarLoop"}
    /\ ResourcesDir \in disk
    /\ Len(reports) = Len(ResourceDirs)
    /\ pc' = "registrarReturned"
    /\ UNCHANGED <<runVars, registrarVars, asked, resolverVars, resourceVars, genVars,
                   storeVars, addVars>>

NextRegistrar ==
    \/ RegistrarNoDirectory
    \/ RegisterResource
    \/ RegistrarReturns

SpecRegistrar == InitRegistrar /\ [][NextRegistrar]_vars

\* registerResources is synchronous: once called it runs to its end
SpecRegistrarRuns == SpecRegistrar /\ WF_vars(NextRegistrar)

----------------------------------------------------------------------------
(* The project directory on disk, and the add and remove commands run in it *)

\* the directories createDirectoryStructure makes sure of
createDirectoryStructure(p) ==
    {"src/middleware", "src/utils", "src/types"}
    \cup (IF p.style = "resource" THEN {"src/resources"}
          ELSE {"src/controllers", "src/services", "src/routes"})
    \cup (IF Truthy(p.database)
          THEN {"src/models"} \cup (IF p.orm = "prisma" THEN {"prisma"} ELSE {})
          ELSE {})
    \cup (IF Truthy(p.testing) THEN {"tests"} ELSE {})

\* the text of every source file generateProject writes, by path
ProjectArtifacts(p) ==
    AppArtifacts(p)
    @@ (IF p.style = "resource"
        THEN RegistrarArtifacts(p) @@ MiddlewareArtifacts(p) @@ UserResourceArtifacts(p)
        ELSE NoArtifacts)

\* the files generateProject writes
ProjectFiles(p) ==
    {"package.json", ".env", ".env.example"} \cup DOMAIN ProjectArtifacts(p)
    \cup generateConfigFiles(p)

\* every path of a generated project: the project directory itself, the
\* files, and the directories ensureDir made on the way
ProjectPaths(p) ==
    {".", "src"} \cup ProjectFiles(p) \cup createDirectoryStructure(p)
    \cup (IF p.style = "resource" THEN {"src/utils", "src/middleware", "src/resources/user"}
          ELSE {})
    \cup (IF p.orm = "prisma" THEN {"prisma"} ELSE {})

ResourcePath(n) == "src/resources/" \o n

\* every path generateResource can write below resources/<n>/
UnderResource(n) ==
    {ResourcePath(n)}
    \cup {ResourcePath(n) \o "/" \o g \o e :
            g \in {"controller", "service", "routes", "validation", "index", "model",
                   n \o ".test"},
            e \in {".ts", ".js"}}

\* generateResource also writing the application entrypoint anew
AddedArtifactsTouchingApp(p, r) ==
    LET ra == ResourceArtifacts(p, r)
        at(g) == ResourcePath(r.name) \o "/" \o g
    IN [ f \in {at(g) : g \in DOMAIN ra} |-> ra[CHOOSE g \in DOMAIN ra : at(g) = f] ]
       @@ ("src/app" \o Ext(p) :> EmptyArtifact)

\* the files generateResource writes, by path, with their text
AddedArtifacts(p, r) ==
    LET ra == ResourceArtifacts(p, r)
        at(g) == ResourcePath(r.name) \o "/" \o g
    IN [ f \in {at(g) : g \in DOMAIN ra} |-> ra[CHOOSE g \in DOMAIN ra : at(g) = f] ]

\* the names given to add and remove: the example resource and a new one
CommandNames == {"user", ResourceName}

\* the projects the commands are run in
SessionConfigs ==
    {p \in CreatedConfigs :
        /\ <<p.database, p.orm>> \in {<<U, U>>, <<"mongodb", "mongoose">>}
        /\ p.auth \in {U, "jwt"}}

\* the answers given when the add command prompts: the defaults, or the
\* test question answered either way and one custom endpoint typed
SessionAnswers(o) ==
    {a \in ResourceAnswerSets(o) :
        /\ a.boilerplateLevel \in {U, "full"}
        /\ a.includeValidation \in {U, T}
        /\ a.withAuth \in {U, F}
        /\ a.customEndpoints \in {NoList, List(<<"activate">>)}}

Command(cmd, arg, exit) == [cmd |-> cmd, arg |-> arg, exit |-> exit]

\* the three checks of addResource without the one for the resource directory
AddRejectedUnlessNew(n) ==
    \/ "package.json" \notin disk
    \/ "src" \notin disk

\* the three checks addResource exits on
AddRejected(n) ==
    \/ "package.json" \notin disk
    \/ "src" \notin disk
    \/ ResourcePath(n) \in disk

\* the three checks removeResource exits on
RemoveRejected(n) ==
    \/ "package.json" \notin disk
    \/ "src" \notin disk
    \/ ResourcePath(n) \notin disk

InitShell ==
    /\ pc = "shell"
    /\ asked = << >>
    /\ \/ \E p \in SessionConfigs :
             /\ config = p
             /\ cwd = Directory(ManifestOf(p), p.language = "ts")
             /\ disk = ProjectPaths(p)
             /\ artifacts = ProjectArtifacts(p)
       \/ /\ config = NoConfig
          /\ \E m \in ForeignManifests, t \in BOOLEAN, missing \in {{}, {"package.json"}, {"src"}} :
                /\ cwd = [ Directory(m, t) EXCEPT
                             !.hasPackageJson = "package.json" \notin missing,
                             !.hasSrc = "src" \notin missing ]
                /\ disk = ({".", "package.json", "src"}
                           \cup (IF t THEN {"tsconfig.json"} ELSE {})) \ missing
          /\ artifacts = NoArtifacts
    /\ command = NoCommand
    /\ trace = << >>
    /\ pending = {}
    /\ packageJson = NoPackageJson
    /\ projectConfig = NoProjectConfig
    /\ written = {}
    /\ routes = NoRoutes
    /\ manifest = NoManifest
    /\ options = NoOptions
    /\ lightMode = U
    /\ configureMore = U
    /\ answers = NoAnswers
    /\ ormChoices = {}
    /\ ResourceIdle
    /\ StoreIdle
    /\ RegistrarIdle

\* addResource(n, o) running to its end in the current directory
AddCommand ==
    /\ pc = "shell"
    /\ \E n \in CommandNames, o \in AddOptionSets :
          /\ ~AddRejected(n)
          /\ packageJson' = cwd.manifest
          /\ projectConfig' = DetectedConfig(cwd.manifest, "tsconfig.json" \in disk)
          /\ \E a \in SessionAnswers(o) :
                /\ resourceOptions' = o
                /\ resourceAnswers' = a
                /\ asked' = ResourceAskedIn(o, a)
                /\ resourceConfig' = [ResourceConfigOf(o, a) EXCEPT !.name = n]
          /\ written' = DOMAIN AddedArtifacts(projectConfig', resourceConfig')
          /\ routes' = generateRoutesContent(projectConfig', resourceConfig')
          /\ artifacts' = AddedArtifacts(projectConfig', resourceConfig') @@ artifacts
          /\ disk' = disk \cup {"src/resources", ResourcePath(n)} \cup written'
          /\ command' = Command("add", n, 0)
    /\ UNCHANGED <<registrarVars, pc, cwd, trace, pending, manifest, resolverVars, storeVars>>

\* addResource(n, o) leaving through one of its three process.exit(1)
AddCommandRejected ==
    /\ pc = "shell"
    /\ \E n \in CommandNames :
          /\ AddRejected(n)
          /\ command' = Command("add", n, 1)
    /\ UNCHANGED <<registrarVars, pc, asked, disk, trace, pending, resolverVars, resourceVars,
                   genVars, storeVars, addVars>>

\* removeResource(n) running to its end: fs.remove of the resource directory
RemoveCommand ==
    /\ pc = "shell"
    /\ \E n \in CommandNames :
          /\ ~RemoveRejected(n)
          /\ disk' = disk \ UnderResource(n)
          /\ artifacts' = Restrict(artifacts, DOMAIN artifacts \ UnderResource(n))
          /\ command' = Command("remove", n, 0)
    /\ UNCHANGED <<registrarVars, pc, asked, trace, pending, projectConfig, written, routes,
                   manifest, resolverVars, resourceVars, storeVars, addVars>>

\* removeResource(n) leaving through one of its three process.exit(1)
RemoveCommandRejected ==
    /\ pc = "shell"
    /\ \E n \in CommandNames :
          /\ RemoveRejected(n)
          /\ command' = Command("remove", n, 1)
    /\ UNCHANGED <<registrarVars, pc, asked, disk, trace, pending, resolverVars, resourceVars,
                   genVars, storeVars, addVars>>

NextShell ==
    \/ AddCommand
    \/ AddCommandRejected
    \/ RemoveCommand
    \/ RemoveCommandRejected

SpecShell == InitShell /\ [][NextShell]_vars

----------------------------------------------------------------------------
(* createProject, step by step, after promptProjectConfig has returned *)

MaxCreateExplicit == 1

\* the records promptProjectConfig returns
ResolvedConfigs ==
    {createLightConfig(o) : o \in OptionsUpTo(MaxCreateExplicit)}
    \cup {createDefaultConfig(o) : o \in OptionsUpTo(MaxCreateExplicit)}
    \cup UNION {{FullConfig(o, a) : a \in AnswerSets(o)} : o \in OptionsUpTo(MaxCreateExplicit)}

\* the config createProject hands to generateProject: as promptProjectConfig
\* builds it, and with the swagger sub-record generatePackageJson and
\* generateAppContent read, without which generateProject does not return
CreateConfigs ==
    ResolvedConfigs \cup {WithSwagger(c, sw) : c \in ResolvedConfigs, sw \in SwaggerRecords}

\* what the working directory holds under the project name before the command
TargetDirectories == {{}, {".", "package.json"}}

InitCreate ==
    /\ pc = "returned"
    /\ asked = << >>
    /\ config \in CreateConfigs
    /\ disk \in TargetDirectories
    /\ command = NoCommand
    /\ trace = << >>
    /\ pending = {}
    /\ options = NoOptions
    /\ lightMode = U
    /\ configureMore = U
    /\ answers = NoAnswers
    /\ ormChoices = {}
    /\ ResourceIdle
    /\ GenIdle
    /\ StoreIdle
    /\ AddIdle
    /\ RegistrarIdle

\* the project directory exists already: console.error and process.exit(1)
CreateRejected ==
    /\ pc = "returned"
    /\ "." \in disk
    /\ command' = Command("create", config.name, 1)
    /\ pc' = "exited"
    /\ UNCHANGED <<registrarVars, asked, disk, trace, pending, resolverVars, resourceVars,
                   genVars, storeVars, addVars>>

\* ensureDir(projectPath) and chdir; generateProject is called with the config
CreateDirectory ==
    /\ pc = "returned"
    /\ "." \notin disk
    /\ disk' = disk \cup {"."}
    /\ projectConfig' = config
    /\ pc' = "generatePackageJson"
    /\ UNCHANGED <<registrarVars, asked, command, trace, pending, written, routes, manifest,
                   artifacts, resolverVars, resourceVars, storeVars, addVars>>

\* generatePackageJson throws on config.swagger.enabled: the catch block of
\* createProject prints the error and exits
CreatePackageJsonThrows ==
    /\ pc = "generatePackageJson"
    /\ generatePackageJson(projectConfig).threw
    /\ manifest' = generatePackageJson(projectConfig)
    /\ trace' = Append(trace, FsStep("generatePackageJson", "package.json", "TypeError"))
    /\ command' = Command("create", config.name, 1)
    /\ pc' = "exited"
    /\ UNCHANGED <<registrarVars, asked, disk, pending, projectConfig, written, routes,
                   artifacts, resolverVars, resourceVars, storeVars, addVars>>

CreatePackageJson ==
    /\ pc = "generatePackageJson"
    /\ ~generatePackageJson(projectConfig).threw
    /\ manifest' = generatePackageJson(projectConfig)
    /\ written' = written \cup {"package.json"}
    /\ disk' = disk \cup {"package.json"}
    /\ trace' = Append(trace, FsStep("generatePackageJson", "package.json", U))
    /\ pc' = "generateAppFiles"
    /\ UNCHANGED <<registrarVars, asked, command, pending, projectConfig, routes, artifacts,
                   resolverVars, resourceVars, storeVars, addVars>>

CreateAppFiles ==
    /\ pc = "generateAppFiles"
    /\ artifacts' = AppArtifacts(projectConfig) @@ artifacts
    /\ written' = written \cup DOMAIN AppArtifacts(projectConfig) \cup {".env", ".env.example"}
    /\ disk' = disk \cup {"src"} \cup written'
    /\ trace' = Append(trace, FsStep("generateAppFiles", "src", U))
    /\ pc' = IF projectConfig.style = "resource" THEN "generateRegisterResourcesUtil"
             ELSE "generateConfigFiles"
    /\ UNCHANGED <<registrarVars, asked, command, pending, projectConfig, routes, manifest,
                   resolverVars, resourceVars, storeVars, addVars>>

CreateRegistrar ==
    /\ pc = "generateRegisterResourcesUtil"
    /\ artifacts' = RegistrarArtifacts(projectConfig) @@ artifacts
    /\ written' = written \cup DOMAIN RegistrarArtifacts(projectConfig)
    /\ disk' = disk \cup {"src/utils"} \cup written'
    /\ trace' = Append(trace, FsStep("generateRegisterResourcesUtil", "src/utils", U))
    /\ pc' = "middlewareStart"
    /\ UNCHANGED <<registrarVars, asked, command, pending, projectConfig, routes, manifest,
                   resolverVars, resourceVars, storeVars, addVars>>

\* the rejection of generateMiddlewareFiles reaches the catch block of
\* createProject: process.exit(1) with whatever is still in flight
CreateMiddlewareRejected ==
    /\ pc = "middlewareRejected"
    /\ command' = Command("create", config.name, 1)
    /\ pending' = {}
    /\ pc' = "exited"
    /\ UNCHANGED <<registrarVars, asked, disk, trace, resolverVars, resourceVars, genVars,
                   storeVars, addVars>>

\* generateResource for the example resource
CreateUserResource ==
    /\ pc = "middlewareDone"
    /\ artifacts' = UserResourceArtifacts(projectConfig) @@ artifacts
    /\ written' = written \cup DOMAIN UserResourceArtifacts(projectConfig)
    /\ routes' = generateRoutesContent(projectConfig, userResourceConfig(projectConfig))
    /\ disk' = disk \cup {"src/resources", ResourcePath("user")} \cup written'
    /\ trace' = Append(trace, FsStep("generateResource", ResourcePath("user"), U))
    /\ pc' = "generateConfigFiles"
    /\ UNCHANGED <<registrarVars, asked, command, pending, projectConfig, manifest,
                   resolverVars, resourceVars, storeVars, addVars>>

\* generateConfigFiles: every writer is awaited through Promise.all
CreateConfigFiles ==
    /\ pc = "generateConfigFiles"
    /\ written' = written \cup generateConfigFiles(projectConfig)
    /\ disk' = disk \cup written'
                \cup (IF projectConfig.orm = "prisma" THEN {"prisma"} ELSE {})
    /\ trace' = Append(trace, FsStep("generateConfigFiles", ".", U))
    /\ pc' = "createDirectoryStructure"
    /\ UNCHANGED <<registrarVars, asked, command, pending, projectConfig, routes, manifest,
                   artifacts, resolverVars, resourceVars, storeVars, addVars>>

\* createDirectoryStructure; generateProject returns
CreateDirectories ==
    /\ pc = "createDirectoryStructure"
    /\ disk' = disk \cup createDirectoryStructure(projectConfig)
    /\ trace' = Append(trace, FsStep("createDirectoryStructure", "src", U))
    /\ pc' = "filesGenerated"
    /\ UNCHANGED <<registrarVars, asked, command, pending, resolverVars, resourceVars, genVars,
                   storeVars, addVars>>

\* execa(config.packageManager, ['install']) is started
InstallStarts ==
    /\ pc = "filesGenerated"
    /\ trace' = Append(trace, FsStep("installStart", config.packageManager, U))
    /\ pc' = "installing"
    /\ UNCHANGED <<registrarVars, asked, disk, command, pending, resolverVars, resourceVars,
                   genVars, storeVars, addVars>>

\* the install subprocess failing ends createProject
InstallEndsAborting ==
    /\ pc = "installing"
    /\ \E ok \in BOOLEAN :
          IF ok
          THEN /\ disk' = disk \cup {"node_modules"}
               /\ trace' = Append(trace, FsStep("installEnd", config.packageManager, U))
               /\ pc' = IF Truthy(config.git) THEN "git" ELSE "report"
               /\ UNCHANGED command
          ELSE /\ trace' = Append(trace, FsStep("installEnd", config.packageManager, "failed"))
               /\ command' = Command("create", config.name, 1)
               /\ pc' = "exited"
               /\ UNCHANGED disk
    /\ UNCHANGED <<registrarVars, asked, pending, resolverVars, resourceVars, genVars,
                   storeVars, addVars>>

\* the install subprocess ends: on failure the catch block prints how to
\* install by hand, and createProject goes on
InstallEnds ==
    /\ pc = "installing"
    /\ \E ok \in BOOLEAN :
          IF ok
          THEN /\ disk' = disk \cup {"node_modules"}
               /\ trace' = Append(trace, FsStep("installEnd", config.packageManager, U))
          ELSE /\ \E partial \in SUBSET {"node_modules"} : disk' = disk \cup partial
               /\ trace' = trace \o
                    << FsStep("installEnd", config.packageManager, "failed"),
                       FsStep("console", "cd " \o config.name \o " && "
                                         \o config.packageManager \o " install", U) >>
    /\ pc' = IF Truthy(config.git) THEN "git" ELSE "report"
    /\ UNCHANGED <<registrarVars, asked, command, pending, resolverVars, resourceVars, genVars,
                   storeVars, addVars>>

GitCommands == <<"git init", "git add", "git commit">>

\* git init, git add . and git commit in one try block: the first failure
\* skips the rest and is caught
GitRuns ==
    /\ pc = "git"
    /\ \E done \in 0..Len(GitCommands) :
          /\ trace' = trace \o
                [i \in 1..(IF done < Len(GitCommands) THEN done + 1 ELSE done) |->
                    FsStep(GitCommands[i], ".", IF i <= done THEN U ELSE "failed")]
          /\ disk' = disk \cup (IF done >= 1 THEN {".git"} ELSE {})
    /\ pc' = "report"
    /\ UNCHANGED <<registrarVars, asked, command, pending, resolverVars, resourceVars, genVars,
                   storeVars, addVars>>

\* the success message; createProject returns
ReportSuccess ==
    /\ pc = "report"
    /\ trace' = Append(trace, FsStep("report", config.name, U))
    /\ command' = Command("create", config.name, 0)
    /\ pc' = "reported"
    /\ UNCHANGED <<registrarVars, asked, disk, pending, resolverVars, resourceVars, genVars,
                   storeVars, addVars>>

NextCreate ==
    \/ CreateRejected
    \/ CreateDirectory
    \/ CreatePackageJsonThrows
    \/ CreatePackageJson
    \/ CreateAppFiles
    \/ CreateRegistrar
    \/ StartMiddlewareOperations
    \/ CompleteEnsureDir
    \/ CompleteWriteFile
    \/ RejectWriteFile
    \/ SettleMiddleware
    \/ CreateMiddlewareRejected
    \/ CreateUserResource
    \/ CreateConfigFiles
    \/ CreateDirectories
    \/ InstallStarts
    \/ InstallEnds
    \/ GitRuns
    \/ ReportSuccess

SpecCreate == InitCreate /\ [][NextCreate]_vars

\* promptProjectConfig followed by the rest of createProject in a directory
\* without the project: of the steps of createProject, those a config
\* returned by promptProjectConfig gets to
NextResolveAndCreate ==
    \/ Next
    \/ CreateDirectory
    \/ CreatePackageJsonThrows

SpecResolveAndCreate == Init /\ [][NextResolveAndCreate]_vars

\* every step of createProject, once it can be taken, is taken: the file
\* system and the subprocesses answer
SpecCreateRuns == SpecCreate /\ WF_vars(NextCreate)

\* the three commands
InitCommands == InitCreate \/ InitShell

NextCommands == NextCreate \/ NextShell

SpecCommands == InitCommands /\ [][NextCommands]_vars

----------------------------------------------------------------------------
(* Properties *)

\* the compatibility table of the data model
CompatibilityTable ==
    [ mongodb  |-> {"mongoose", "prisma"},
      postgres |-> {"prisma", "sequelize", "typeorm"} ]

InTable(db, orm) == db \in DOMAIN CompatibilityTable /\ orm \in CompatibilityTable[db]

\* explicit option > interactive answer > built-in default
Resolve3(explicit, answer, default) ==
    IF explicit # U THEN explicit ELSE IF answer # U THEN answer ELSE default

NoneIsAbsent(v) == IF v = "none" THEN U ELSE v

IsFullFlow == pc = "returned" /\ lightMode # T /\ configureMore = T
IsDefaultFlow == pc = "returned" /\ lightMode # T /\ configureMore = F
IsLightFlow == pc = "returned" /\ lightMode = T

\* C1: every (database, orm) pair of a returned ProjectConfig is in the
\* compatibility table, and no config is returned when options.db and
\* options.orm are both explicit and the pair is not in the table.
C1_CompatibilityInvariant ==
    pc = "returned" =>
        /\ config.orm # U => InTable(config.database, config.orm)
        /\ ~(options.db # U /\ options.orm # U /\ ~InTable(options.db, options.orm))

\* C2: a returned ProjectConfig without a database has no orm, and generating
\* from it writes neither a model artifact nor the adapter schema artifact.
C2_NoDatabaseNoAdapter ==
    pc = "returned" /\ config.database = U =>
        /\ config.orm = U
        /\ "prisma/schema.prisma" \notin generateConfigFiles(config)
        /\ ("model" \o Ext(config)) \notin ResourceFiles(config, userResourceConfig(config))

LightForced ==
    /\ config.testing = F
    /\ config.eslint = F
    /\ config.prettier = F
    /\ config.docker = F
    /\ config.database = U
    /\ config.orm = U
    /\ config.auth = U
    /\ config.boilerplateLevel = "minimal"

LightFollowsNameLanguagePackageManager ==
    /\ config.name = ProjectName
    /\ config.language = Resolve3(options.lang, U, "ts")
    /\ config.packageManager = Resolve3(options.pkgManager, U, "npm")
    /\ config.style = "resource"
    /\ config.light = T
    /\ config.includeValidation = F

C4_DefaultFlowHonoursExplicit ==
    IsDefaultFlow =>
        /\ options.lang # U => config.language = options.lang
        /\ options.pkgManager # U => config.packageManager = options.pkgManager
        /\ options.style # U => config.style = options.style
        /\ options.boilerplate # U => config.boilerplateLevel = options.boilerplate
        /\ options.validation # U => config.includeValidation = options.validation
        /\ options.git # U => config.git = options.git
        /\ options.withDb = T => config.database = Resolve3(options.db, U, "mongodb")
        /\ options.withDb = T /\ options.orm # U => config.orm = options.orm
        /\ options.withAuth = T => config.auth = Resolve3(options.auth, U, "jwt")
        /\ options.withJest # U /\ options.tests # F => config.testing = options.withJest
        /\ options.withEslint # U => config.eslint = options.withEslint
        /\ options.withPrettier # U => config.prettier = options.withPrettier
        /\ options.withDocker # U => config.docker = options.withDocker

\* C5: in the full flow every field is the explicit option if there is one,
\* else the interactive answer if one was given, else the built-in default.
C5_FullFlowPrecedence ==
    IsFullFlow =>
        /\ config.language = Resolve3(options.lang, answers.language, "ts")
        /\ config.packageManager = Resolve3(options.pkgManager, answers.packageManager, "npm")
        /\ config.style = Resolve3(options.style, answers.style, "resource")
        /\ config.boilerplateLevel = Resolve3(options.boilerplate, answers.boilerplateLevel, "full")
        /\ config.includeValidation = Resolve3(options.validation, answers.includeValidation, T)
        /\ config.database = Resolve3(options.db, NoneIsAbsent(answers.database), U)
        /\ config.orm = Resolve3(options.orm, answers.orm, U)
        /\ config.auth = Resolve3(options.auth, NoneIsAbsent(answers.auth), U)
        /\ options.tests # F => config.testing = Resolve3(options.withJest, answers.testing, F)
        /\ config.eslint = Resolve3(options.withEslint, answers.eslint, F)
        /\ config.prettier = Resolve3(options.withPrettier, answers.prettier, F)
        /\ config.docker = Resolve3(options.withDocker, answers.docker, F)
        /\ config.git = Resolve3(options.git, answers.git, T)

\* C6: the orm question is asked only if a database kind was chosen and
\* options.orm is not explicit, and the choices it offers are exactly the
\* compatibility-table entry of that database kind, never an empty list.
C6_OrmQuestionChoices ==
    "orm" \in Range(asked) =>
        /\ options.orm = U
        /\ ormChoices # {}
        /\ pc = "returned" =>
              /\ config.database \in DOMAIN CompatibilityTable
              /\ ormChoices = CompatibilityTable[config.database]

\* C7: generateTests, includeValidation and withAuth of the ResourceConfig are
\* the explicit option if there is one, else the answer, else the default.
C7_ResourcePrecedence ==
    pc = "resourceResolved" =>
        /\ resourceConfig.generateTests =
              Resolve3(resourceOptions.tests, resourceAnswers.generateTests, T)
        /\ resourceConfig.includeValidation =
              Resolve3(resourceOptions.validation, resourceAnswers.includeValidation, T)
        /\ resourceConfig.withAuth =
              Resolve3(resourceOptions.withAuth, resourceAnswers.withAuth, F)

TestFileOf(p, r) == r.name \o ".test" \o (IF p.language = "ts" THEN ".ts" ELSE ".js")

RoutesUseAuth ==
    \/ "../../middleware/auth" \in routes.imports
    \/ \E i \in DOMAIN routes.table : "authenticateToken" \in Range(routes.table[i].chain)

\* C8: generateResource writes the resource test file exactly when the
\* resource asks for tests and the parent project has testing on, and the
\* routes use the auth middleware only if the parent project has an auth kind.
C8_ResourceFollowsParent ==
    pc = "resourceGenerated" =>
        /\ TestFileOf(projectConfig, resourceConfig) \in written
              <=> (resourceConfig.generateTests = T /\ projectConfig.testing = T)
        /\ RoutesUseAuth => projectConfig.auth \in {"jwt", "passport"}

C8_Witness ==
    /\ pc = "resourceGenerated"
    /\ resourceConfig.generateTests = T
    /\ projectConfig.testing = F
    /\ TestFileOf(projectConfig, resourceConfig) \notin written
    /\ Cardinality(written) >= 5

BaselineRuntime == {"express", "cors", "helmet", "express-rate-limit", "dotenv"}

\* C9: the dependency matrix returns a result, never throws, for every
\* combination of database, orm, auth and documentation on, off or absent,
\* and every result contains the baseline runtime set.
C9_DependencyTotality ==
    pc = "packageJsonDone" =>
        /\ ~manifest.threw
        /\ BaselineRuntime \subseteq manifest.dependencies

AdapterPackages ==
    { "mongoose", "@types/mongoose", "@prisma/client", "prisma", "sequelize",
      "@types/sequelize", "pg", "@types/pg", "typeorm", "reflect-metadata", "mongodb" }

ExpectedRuntime(orm, db) ==
    CASE orm = "mongoose"  -> {"mongoose"}
      [] orm = "prisma"    -> {"@prisma/client"}
      [] orm = "sequelize" -> {"sequelize"} \cup (IF db = "postgres" THEN {"pg"} ELSE {})
      [] orm = "typeorm"   -> {"typeorm", "reflect-metadata"}
                              \cup (IF db = "postgres" THEN {"pg"} ELSE {"mongodb"})

ExpectedDev(orm, db) ==
    CASE orm = "mongoose"  -> {"@types/mongoose"}
      [] orm = "prisma"    -> {"prisma"}
      [] orm = "sequelize" -> {"@types/sequelize"}
                              \cup (IF db = "postgres" THEN {"@types/pg"} ELSE {})
      [] orm = "typeorm"   -> IF db = "postgres" THEN {"@types/pg"} ELSE {}

AdapterContribution == getDatabaseDependencies(projectConfig.database, projectConfig.orm)

AdapterConfigured ==
    /\ pc = "packageJsonDone"
    /\ projectConfig.database \in {"mongodb", "postgres"}
    /\ projectConfig.orm # U

NoDuplicates(s) == Cardinality(Range(s)) = Len(s)

\* C10 (as stated): each adapter kind contributes exactly one runtime package
\* and one dev package, the same for every database kind, and the runtime and
\* development sets of the descriptor are disjoint.
C10_OneFixedPair ==
    AdapterConfigured =>
        /\ Len(AdapterContribution.dependencies) = 1
        /\ Len(AdapterContribution.devDependencies) = 1
        /\ \A db \in {"mongodb", "postgres"} :
              getDatabaseDependencies(db, projectConfig.orm) = AdapterContribution
        /\ Range(AdapterContribution.dependencies)
              \cap Range(AdapterContribution.devDependencies) = {}

\* C10 (amended): the packages an adapter kind contributes depend only on the
\* adapter kind and the database kind: mongoose and prisma contribute one
\* fixed runtime/dev pair whatever the database kind; sequelize adds pg and
\* @types/pg for postgres; typeorm contributes typeorm and reflect-metadata
\* plus the driver of the database kind (pg with @types/pg, or mongodb).
\* Nothing is contributed twice, and the runtime and development sets of
\* the contribution and of every descriptor produced are disjoint.
C10_AdapterPackages ==
    /\ AdapterConfigured =>
          /\ Range(AdapterContribution.dependencies)
                = ExpectedRuntime(projectConfig.orm, projectConfig.database)
          /\ Range(AdapterContribution.devDependencies)
                = ExpectedDev(projectConfig.orm, projectConfig.database)
          /\ projectConfig.orm \in {"mongoose", "prisma"} =>
                \A db \in {"mongodb", "postgres"} :
                    getDatabaseDependencies(db, projectConfig.orm) = AdapterContribution
          /\ NoDuplicates(AdapterContribution.dependencies)
          /\ NoDuplicates(AdapterContribution.devDependencies)
          /\ Range(AdapterContribution.dependencies)
                \cap Range(AdapterContribution.devDependencies) = {}
    /\ pc = "packageJsonDone" /\ ~manifest.threw =>
          /\ manifest.dependencies \cap manifest.devDependencies = {}
          /\ manifest.dependencies \cap AdapterPackages
                = Range(AdapterContribution.dependencies)

C10_Witness ==
    /\ AdapterConfigured
    /\ projectConfig.orm = "typeorm"
    /\ projectConfig.database = "mongodb"
    /\ ~manifest.threw
    /\ "mongodb" \in manifest.dependencies

\* C11: resolving the options {withDb: true, db: 'postgres', orm: 'prisma'}
\* through a non-light flow and handing the resolved config to the dependency
\* matrix yields a runtime set with @prisma/client and without mongoose, and
\* prisma among the development dependencies
C11_PrismaRequestEndToEnd ==
    (pc \in {"exited", "packageJsonDone"} /\ lightMode # T) =>
        /\ ~manifest.threw
        /\ "@prisma/client" \in manifest.dependencies
        /\ "prisma" \in manifest.devDependencies
        /\ "mongoose" \notin manifest.dependencies

StandardRoutes ==
    << [method |-> "get",    path |-> "/"],
       [method |-> "get",    path |-> "/:id"],
       [method |-> "post",   path |-> "/"],
       [method |-> "put",    path |-> "/:id"],
       [method |-> "delete", path |-> "/:id"] >>

\* a route serves the custom endpoint e
RouteServes(route, e) ==
    \/ route.path \in {"/" \o e, "/:id/" \o e}
    \/ e \in Range(route.chain)

\* C12: the routes artifact holds the five standard routes, in order, then
\* one route per entry of customEndpoints in the order supplied, and the index
\* artifact mounts the router under /api/<name>s
C12_RouteTableCompleteness ==
    pc = "resourceGenerated" =>
        LET t == routes.table
            c == resourceConfig.customEndpoints
        IN /\ artifacts["index" \o Ext(projectConfig)].mount
                 = "/api/" \o resourceConfig.name \o "s"
           /\ Len(t) = 5 + Len(c)
           /\ \A i \in 1..5 :
                 [method |-> t[i].method, path |-> t[i].path] = StandardRoutes[i]
           /\ \A i \in 1..Len(c) : RouteServes(t[5 + i], c[i])

MiddlewareOf(route) == SubSeq(route.chain, 1, Len(route.chain) - 1)
HandlerOf(route) == route.chain[Len(route.chain)]
RouteOf(method, path) ==
    CHOOSE i \in DOMAIN routes.table :
        routes.table[i].method = method /\ routes.table[i].path = path

C14_BoilerplateDepth ==
    pc = "resourceGenerated" =>
        LET service == artifacts["service" \o Ext(projectConfig)]
            level   == resourceConfig.boilerplateLevel
        IN /\ level = "signatures" =>
                 /\ service.operations = ServiceOperations
                 /\ service.bodies = "placeholder"
                 /\ service.storage # "array"
           /\ level = "minimal" => service.bodies = "none"
           /\ service.bodies = "working" => level = "full"

\* C15: in the in-memory store the k-th created record gets identifier k,
\* identifiers strictly increase along the record list (creation order, no
\* identifier twice) and stay below the counter (never reused after a delete)
C15_IdentifiersFollowCreation ==
    pc = "serving" =>
        /\ result.call = "create" => result.record[1].id = nextId - 1
        /\ \A i, j \in DOMAIN items : i < j => items[i].id < items[j].id
        /\ \A i \in DOMAIN items : items[i].id < nextId

\* the identifier of the request is the id of no record of the store
NotInStore(list, id) == \A i \in DOMAIN list : ~IdMatches(list[i], id)

\* C16: update and delete of an identifier that is not in the store return a
\* falsy value (null, false), leave the record list and the identifier counter
\* as they were, and the controller answers 404
C16_NotFoundLeavesStore ==
    [][ (result'.call \in {"update", "delete"} /\ NotInStore(items, result'.param)) =>
           /\ ~result'.truthy
           /\ result'.record = << >>
           /\ items' = items
           /\ nextId' = nextId
           /\ status' = 404 ]_vars

\* the request of the generated test, DELETE /api/<name>s/999999, was answered
\* while the store held records
C16_Witness ==
    /\ pc = "serving"
    /\ Len(items) > 0
    /\ result.call = "delete"
    /\ result.param = "999999"
    /\ ~result.truthy
    /\ status = 404

\* C17: with a database kind and an adapter kind of the compatibility table,
\* the generation pass writes a model artifact that exports, bound to a value,
\* every name the service artifact imports from ./model and calls
C17_ServiceModelDefined ==
    (pc = "resourceGenerated" /\ InTable(projectConfig.database, projectConfig.orm)) =>
        LET service == artifacts["service" \o Ext(projectConfig)]
            file    == "model" \o Ext(projectConfig)
        IN /\ service.storage = "model"
           /\ service.calls = {"find", "findById", "create", "findByIdAndUpdate",
                               "findByIdAndDelete"}
           /\ file \in DOMAIN artifacts
           /\ \A i \in service.imports :
                 i.from = "./model" =>
                     i.name \in artifacts[file].exports \ artifacts[file].nullExports

\* the source files a project of the given dialect may hold
SourceBases ==
    {"src/app", "src/server", "src/utils/registerResources", "src/middleware/errorHandler",
     "src/middleware/auth", "src/swagger", "src/utils/swagger", "src/middleware/swagger"}
    \cup {"src/resources/user/" \o b :
             b \in {"controller", "service", "routes", "validation", "index", "model",
                    "user.test"}}

\* C18: every generated source artifact has the file extension of
\* config.language and its syntax form: with 'js' no import / export statement
\* and no type syntax, with 'ts' no require and no module.exports
C18_DialectSingleSource ==
    pc \in {"projectGenerated", "swaggerGenerated"} =>
        \A f \in DOMAIN artifacts :
            /\ f \in {b \o Ext(projectConfig) : b \in SourceBases}
            /\ projectConfig.language = "js" =>
                   artifacts[f].forms \cap {"import", "export", "types"} = {}
            /\ projectConfig.language = "ts" =>
                   artifacts[f].forms \cap {"require", "module.exports"} = {}

\* the project in the directory was created by generateProject from a
\* (database, orm) pair of the compatibility table, and addResource has read it
IntrospectedCompatible ==
    /\ pc = "added"
    /\ config.name # U
    /\ InTable(config.database, config.orm)

BothAbsent(db, orm) == db \in {U, "none"} /\ orm = U

\* C19: for the manifest the dependency matrix emits for a compatible
\* (database, orm) pair, detectDatabase and detectORM report that database
\* kind and that adapter kind, and the pair reported is in the compatibility
\* table or absent
C19_IntrospectionRoundTrip ==
    IntrospectedCompatible =>
        /\ projectConfig.database = config.database
        /\ projectConfig.orm = config.orm
        /\ \/ InTable(projectConfig.database, projectConfig.orm)
           \/ BothAbsent(projectConfig.database, projectConfig.orm)

\* the database kind detectDatabase attaches to an adapter's packages
AdapterDatabase(orm) == IF orm = "mongoose" THEN "mongodb" ELSE "postgres"

\* C19 (amended): the adapter kind is reported as configured; the database
\* kind reported is mongodb for mongoose and postgres for prisma, sequelize
\* and typeorm, which is the configured kind except for prisma on mongodb;
\* the pair reported is in the compatibility table
C19_IntrospectionByAdapter ==
    IntrospectedCompatible =>
        /\ projectConfig.orm = config.orm
        /\ projectConfig.database = AdapterDatabase(config.orm)
        /\ <<config.database, config.orm>> # <<"mongodb", "prisma">> =>
               projectConfig.database = config.database
        /\ InTable(projectConfig.database, projectConfig.orm)

\* a PostgreSQL / Sequelize project has been read back as such
C19_Witness ==
    /\ IntrospectedCompatible
    /\ config.database = "postgres"
    /\ config.orm = "sequelize"
    /\ "sequelize" \in Deps(packageJson)
    /\ projectConfig.database = "postgres"
    /\ projectConfig.orm = "sequelize"

\* the dependency names detectDatabase, detectORM, detectAuth and hasJest look for
RecognizedNames ==
    {"mongoose", "pg", "@prisma/client", "prisma", "sequelize", "typeorm",
     "jsonwebtoken", "passport", "jest"}

\* C20: for a manifest without a recognized dependency name, its maps missing
\* or not, addResource builds a config with no database, no adapter, no auth
\* and testing false, in the dialect 'ts' exactly when tsconfig.json exists,
\* and it exits early only when the directory checks fail
C20_DefaultOnMiss ==
    /\ (pc = "added" /\ Deps(packageJson) \cap RecognizedNames = {}) =>
          /\ projectConfig.database = "none"
          /\ ~DatabaseEnabled(projectConfig)
          /\ projectConfig.orm = U
          /\ projectConfig.auth = "none"
          /\ projectConfig.testing = F
          /\ projectConfig.language = "ts" <=> cwd.hasTsConfig
          /\ projectConfig.language \in {"ts", "js"}
    /\ pc = "exited" => (~cwd.hasPackageJson \/ ~cwd.hasSrc \/ cwd.hasResource)

\* a package.json without dependency maps, next to a tsconfig.json, was read
C20_Witness ==
    /\ pc = "added"
    /\ DOMAIN packageJson = {"name"}
    /\ cwd.hasTsConfig
    /\ projectConfig.language = "ts"
    /\ projectConfig.database = "none"
    /\ "controller.ts" \in written

----------------------------------------------------------------------------
(* C26: selection of the configuration flow *)

FieldQuestions == {QOrder[i] : i \in 1..Len(QOrder)}

AskedSet == {asked[i] : i \in 1..Len(asked)}

\* the questions put before the flow was chosen
LightDecisionAsked == IF options.light = U THEN <<"light">> ELSE << >>

\* C26: a returned ProjectConfig is the result of exactly one of the light,
\* default and full flows; when options.light is explicit the light question
\* is never put; the light flow puts no question after the light decision;
\* the default flow puts no field question after 'configure more' was declined.
C26_FlowSelection ==
    pc = "returned" =>
        /\ Cardinality({f \in {"light", "default", "full"} :
                \/ f = "light" /\ IsLightFlow /\ config = createLightConfig(options)
                \/ f = "default" /\ IsDefaultFlow /\ config = createDefaultConfig(options)
                \/ f = "full" /\ IsFullFlow /\ config = FullConfig(options, answers)}) = 1
        /\ options.light # U => "light" \notin AskedSet /\ lightMode = options.light
        /\ IsLightFlow => asked = LightDecisionAsked /\ configureMore = U
        /\ IsDefaultFlow =>
              /\ asked = Append(LightDecisionAsked, "configureMore")
              /\ AskedSet \cap FieldQuestions = {}
        /\ IsFullFlow => SubSeq(asked, 1, Len(LightDecisionAsked) + 1)
                            = Append(LightDecisionAsked, "configureMore")

C26_Witness ==
    /\ pc = "returned"
    /\ options.light = F
    /\ IsDefaultFlow
    /\ asked = <<"configureMore">>

C26_WitnessLight ==
    /\ pc = "returned"
    /\ options.light = U
    /\ IsLightFlow
    /\ asked = <<"light">>

----------------------------------------------------------------------------
(* C25: the scripts map and the main entry of the manifest *)

TestScripts == {"test", "test:watch", "test:coverage"}
LintScripts == {"lint", "lint:fix"}
FormatScripts == {"format"}
SchemaScripts == {"db:generate", "db:push", "db:migrate", "db:studio"}

ConditionalScripts(p) ==
    (IF Truthy(p.testing) THEN TestScripts ELSE {})
    \cup (IF Truthy(p.eslint) THEN LintScripts ELSE {})
    \cup (IF Truthy(p.prettier) THEN FormatScripts ELSE {})
    \cup (IF p.orm = "prisma" THEN SchemaScripts ELSE {})

ManifestWritten == pc = "packageJsonDone" /\ ~manifest.threw

MainByDialect ==
    manifest.main = (IF projectConfig.language = "ts" THEN "dist/server.js" ELSE "src/server.js")

----------------------------------------------------------------------------
(* C28: order of the directory creation and the writes of generateMiddlewareFiles *)

EnsureDirPositions == {i \in 1..Len(trace) : trace[i].op = "ensureDir"}

\* C28: under every interleaving of the operations generateMiddlewareFiles
\* starts, the writes of middleware/errorHandler and middleware/auth are
\* carried out only after the creation of the middleware directory completed.
C28_WritesAfterDirectory ==
    \A j \in 1..Len(trace) :
        trace[j].op = "writeFile" =>
            /\ trace[j].error = U
            /\ \E i \in EnsureDirPositions : i < j

\* the interleaving the statement describes
C28_DirectoryFirst ==
    /\ pc = "middlewareDone"
    /\ Len(trace) = 3
    /\ trace[1].op = "ensureDir"
    /\ MiddlewareDir \o "/auth.ts" \in disk

----------------------------------------------------------------------------
(* C29: the local imports of the artifacts of one generation pass *)

\* C29: for every ProjectConfig (both styles, every auth kind, every adapter,
\* documentation on or off) every local module and symbol an artifact written
\* by generateProject imports is written by the same pass and exports that
\* symbol.
C29_ClosedImportGraph ==
    pc = "projectGenerated" =>
        \A f \in DOMAIN artifacts : \A i \in artifacts[f].imports :
            ImportResolves(f, i, projectConfig, artifacts)

\* a configuration whose import graph is closed
C29_ClosedCase ==
    /\ pc = "projectGenerated"
    /\ projectConfig.style = "resource"
    /\ projectConfig.testing = T
    /\ \A f \in DOMAIN artifacts : \A i \in artifacts[f].imports :
            ImportResolves(f, i, projectConfig, artifacts)

----------------------------------------------------------------------------
(* C24: the generated registrar isolates the failure of a resource *)

InvocationsOf(n) == {i \in 1..Len(invoked) : invoked[i] = Invocation(n)}

ReportsOf(n) == {i \in 1..Len(reports) : reports[i].resource = n}

Healthy(kind) == Callable(kind, projectConfig.language) /\ ~kind.throws

RegistrarOutcome ==
    (pc = "registrarReturned" /\ ResourcesDir \in disk) =>
        /\ Len(invoked) = Cardinality({n \in DOMAIN resourceKinds :
                                Callable(resourceKinds[n], projectConfig.language)})
        /\ \A n \in DOMAIN resourceKinds :
              /\ Cardinality(ReportsOf(n)) = 1
              /\ Callable(resourceKinds[n], projectConfig.language)
                    => Cardinality(InvocationsOf(n)) = 1
              /\ \A i \in ReportsOf(n) :
                    reports[i].level =
                        IF Healthy(resourceKinds[n]) THEN "log"
                        ELSE IF resourceKinds[n].shape = "loadFails"
                                \/ Callable(resourceKinds[n], projectConfig.language)
                             THEN "error" ELSE "warn"

\* C24: for any set of subdirectories of the resources directory and any
\* subset of them whose index fails to load, throws when invoked or exports
\* no function, the function of every other resource is invoked exactly once
\* with the application handle, one success or failure is reported per
\* resource, and registerResources returns.
C24_RegistrarIsolation ==
    /\ []RegistrarOutcome
    /\ <>(pc = "registrarReturned")

C24_Witness ==
    /\ pc = "registrarReturned"
    /\ Cardinality(DOMAIN resourceKinds) = 3
    /\ \E a, b, c \in DOMAIN resourceKinds :
          /\ resourceKinds[a].shape = "loadFails"
          /\ Callable(resourceKinds[b], projectConfig.language) /\ resourceKinds[b].throws
          /\ Healthy(resourceKinds[c])
          /\ ReportsOf(a) # {} /\ ReportsOf(b) # {}
          /\ \E i \in ReportsOf(a), j \in ReportsOf(c) : i < j
          /\ Cardinality(InvocationsOf(c)) = 1

----------------------------------------------------------------------------
(* C27: what a successful add command changes *)

AddSucceeds ==
    /\ command' # command
    /\ command'.cmd = "add"
    /\ command'.exit = 0

\* C27: a successful addResource(name) creates files only inside
\* src/resources/<name>/ and leaves package.json, the app and server
\* entrypoints, the middleware, the utilities and every other resource as
\* they were.
C27_AddFrame ==
    [][AddSucceeds =>
          LET n == command'.arg IN
          /\ disk \subseteq disk'
          /\ disk' \ disk \subseteq {"src/resources"} \cup UnderResource(n)
          /\ disk' \ disk # {}
          /\ DOMAIN artifacts \subseteq DOMAIN artifacts'
          /\ \A f \in DOMAIN artifacts : artifacts'[f] = artifacts[f]
          /\ DOMAIN artifacts' \ DOMAIN artifacts \subseteq UnderResource(n)
          /\ cwd' = cwd]_vars

C27_Witness ==
    /\ pc = "shell"
    /\ command = Command("add", ResourceName, 0)
    /\ ResourcePath("user") \o "/index.ts" \in disk
    /\ ResourcePath(ResourceName) \o "/index.ts" \in DOMAIN artifacts
    /\ "src/app.ts" \in DOMAIN artifacts
    /\ "src/middleware/errorHandler.ts" \in disk

----------------------------------------------------------------------------
(* C22: order of generation, installation and repository initialisation *)

GenerationSteps ==
    { "generatePackageJson", "generateAppFiles", "generateRegisterResourcesUtil",
      "ensureDir", "writeFile", "generateResource", "generateConfigFiles",
      "createDirectoryStructure" }

Positions(op) == {i \in 1..Len(trace) : trace[i].op = op}

\* the steps generateProject takes for config c, in the trace
GenerationDone(c) ==
    /\ \A s \in {"generatePackageJson", "generateAppFiles", "generateConfigFiles",
                 "createDirectoryStructure"} : Positions(s) # {}
    /\ c.style = "resource" =>
          /\ Positions("generateRegisterResourcesUtil") # {}
          /\ Positions("generateResource") # {}
          /\ Positions("ensureDir") # {}
          /\ Cardinality(Positions("writeFile"))
                = Cardinality(DOMAIN MiddlewareArtifacts(c))

InstallStarted == Positions("installStart") # {}

OrderInTrace ==
    /\ \A i \in 1..Len(trace), j \in Positions("installStart") :
          trace[i].op \in GenerationSteps => i < j /\ trace[i].error = U
    /\ InstallStarted =>
          /\ GenerationDone(config)
          /\ ProjectPaths(config) \subseteq disk
          /\ ProjectFiles(config) = written
          /\ pending = {}
    /\ \A j \in Positions("git init") :
          \E i \in Positions("installEnd") : i < j

\* C22: in createProject every artifact write and directory creation of the
\* generation pass has completed before the install subprocess starts, and
\* the repository initialisation starts only after the install subprocess
\* has finished, whether it succeeded or failed.
C22_GenerateInstallGit ==
    /\ []OrderInTrace
    /\ [][(Len(trace') = Len(trace) + 1 /\ trace'[Len(trace')].op = "installStart")
            => pending = {} /\ pc = "filesGenerated"]_vars

C22_Witness ==
    /\ pc = "reported"
    /\ config.style = "resource"
    /\ config.auth = "jwt"
    /\ Positions("git init") # {}
    /\ \E i \in Positions("installEnd") : trace[i].error = "failed"
    /\ Cardinality(Positions("writeFile")) = 2

----------------------------------------------------------------------------
(* C23: failures of the subprocesses after generation *)

PostGeneration == {"filesGenerated", "installing", "git", "report"}

InstallFailed == \E i \in Positions("installEnd") : trace[i].error = "failed"

GitFailed ==
    \E i \in 1..Len(trace) :
        trace[i].op \in {GitCommands[k] : k \in 1..Len(GitCommands)} /\ trace[i].error = "failed"

SubprocessFailureContained ==
    /\ InstallStarted => pc # "exited" /\ command.exit = 0
    /\ \A i \in Positions("installEnd") :
          trace[i].error = "failed" =>
              /\ i < Len(trace)
              /\ trace[i + 1] = FsStep("console", "cd " \o config.name \o " && "
                                                   \o config.packageManager \o " install", U)
    /\ pc = "reported" => command = Command("create", config.name, 0)

GeneratedFilesKept ==
    /\ written' = written
    /\ artifacts' = artifacts
    /\ manifest' = manifest
    /\ routes' = routes
    /\ ProjectPaths(config) \subseteq disk'

\* C23: once generateProject has succeeded, a failure of the install
\* subprocess or of any git subprocess does not abort createProject and does
\* not change the generated files, and the success report is still reached;
\* an install failure is followed by the manual-install instruction and does
\* not keep the git step from running when config.git is set.
C23_SubprocessFailures ==
    /\ []SubprocessFailureContained
    /\ [][(pc \in PostGeneration) => GeneratedFilesKept]_vars
    /\ (pc = "filesGenerated") ~> (pc = "reported")
    /\ (InstallFailed /\ Truthy(config.git)) ~> (Positions("git init") # {})

C23_Witness ==
    /\ pc = "reported"
    /\ InstallFailed
    /\ GitFailed
    /\ Positions("git add") # {}
    /\ command.exit = 0
    /\ ProjectFiles(config) \subseteq disk

----------------------------------------------------------------------------
(* C21: commands turned down on what exists already *)

FilesKept ==
    /\ disk' = disk
    /\ artifacts' = artifacts
    /\ written' = written
    /\ manifest' = manifest
    /\ cwd' = cwd

\* an add command runs for a name whose resource directory exists
AddOverExisting ==
    /\ pc = "shell"
    /\ command'.cmd = "add"
    /\ ResourcePath(command'.arg) \in disk

\* createProject finds the project directory
CreateOverExisting ==
    /\ pc = "returned"
    /\ "." \in disk

\* a resource directory disappears
ResourceRemoved(n) ==
    /\ ResourcePath(n) \in disk
    /\ ResourcePath(n) \notin disk'

AddedResourceStays ==
    \A n \in CommandNames :
        (pc = "shell" /\ command = Command("add", n, 0)) => ResourcePath(n) \in disk

\* C21: addResource for a name whose src/resources/<name> exists and
\* createProject for a name whose project directory exists end with a
\* nonzero status and create, change and remove nothing; the directory of an
\* added resource stays until a remove of that name, so that a second add of
\* the name without a remove in between is rejected.
C21_PreconditionRejection ==
    /\ [][AddOverExisting => command'.exit = 1 /\ FilesKept]_vars
    /\ [][CreateOverExisting =>
            pc' = "exited" /\ command' = Command("create", config.name, 1) /\ FilesKept]_vars
    /\ []AddedResourceStays
    /\ [][\A n \in CommandNames :
            ResourceRemoved(n) => command' = Command("remove", n, 0)]_vars

\* an add was accepted and the next add of the same name turned down
C21_Witness ==
    /\ pc = "shell"
    /\ command = Command("add", ResourceName, 1)
    /\ resourceConfig # NoResourceConfig
    /\ resourceConfig.name = ResourceName
    /\ ResourcePath(ResourceName) \o "/index.ts" \in disk

C21_WitnessCreate ==
    /\ pc = "exited"
    /\ command = Command("create", ProjectName, 1)
    /\ disk = {".", "package.json"}
    /\ trace = << >>

----------------------------------------------------------------------------
(* C30: the configs promptProjectConfig returns, handed to generateProject *)

\* the fields of the config the generators read
GeneratorFields ==
    { "name", "language", "packageManager", "style", "database", "orm", "auth",
      "testing", "eslint", "prettier", "docker", "git", "boilerplateLevel",
      "includeValidation", "swagger" }

GenerateProjectCalled == pc \in {"generatePackageJson", "exited"} /\ projectConfig # NoProjectConfig

\* C30: every ProjectConfig promptProjectConfig returns (light, default or
\* full flow) carries every field the generators read, and generateProject
\* on it runs to its end without throwing and writes the manifest, the
\* entrypoints and the configuration files.
C30_ResolvedConfigGenerates ==
    /\ pc = "returned" => GeneratorFields \subseteq DOMAIN config
    /\ \A i \in 1..Len(trace) : trace[i].error = U
    /\ pc = "exited" => {"package.json", ".gitignore"} \subseteq disk

\* what happens instead, for every flow: generatePackageJson throws on the
\* absent swagger sub-record, nothing but the project directory is made, and
\* createProject exits with status 1
C30_GenerationThrows ==
    GenerateProjectCalled =>
        /\ "swagger" \notin DOMAIN projectConfig
        /\ generatePackageJson(projectConfig).threw
        /\ disk = {"."}
        /\ pc = "exited" => command.exit = 1 /\ trace[Len(trace)].error = "TypeError"

C30_ThrowsOnLightConfig ==
    /\ pc = "exited"
    /\ lightMode = T
    /\ command = Command("create", ProjectName, 1)
    /\ disk = {"."}

====
